---- MODULE Spec2Model ----
(***************************************************************************)
(* Lead-staleness notification generators and salesman activity status of  *)
(* the CRM: the two HTTP functions (auto-generate-notifications and        *)
(* generate-admin-notifications), the in-app generators                    *)
(* (AdminNotifications, SalesmanNotifications) and                         *)
(* MonitoringRoom.fetchSalesmen, over the tables leads, user_roles,        *)
(* admin_notifications and activity_logs.  Timestamps are milliseconds.    *)
(***************************************************************************)
EXTENDS Integers, Sequences, FiniteSets, TLC

VARIABLES
  leads,                \* table leads: sequence of rows, in table order
  user_roles,           \* table user_roles: set of rows [user_id, email]
  admin_notifications,  \* table admin_notifications: sequence of rows
  activity_logs,        \* table activity_logs: set of rows [user_email, timestamp]
  now,                  \* the clock (Date.now()), in milliseconds
  nextId,               \* next generated admin_notifications.id
  fn,                   \* the handler that is running, or "none"
  pc,                   \* its position
  loc,                  \* its local variables
  response,             \* the last HTTP response, or NoResponse
  salesmen,             \* MonitoringRoom: state `salesmen`
  mr_loading,           \* MonitoringRoom: state `loading`
  hist,                 \* completed passes, oldest first
  faults,               \* number of failed requests so far
  ui                    \* the state, timers and sessions of the mounted
                        \* components: a record, one field per state hook

vars == <<leads, user_roles, admin_notifications, activity_logs, now, nextId,
          fn, pc, loc, response, salesmen, mr_loading, hist, faults, ui>>

----------------------------------------------------------------------------
\* Bounds of the model.

MaxPasses == 2
MaxFaults == 1

----------------------------------------------------------------------------
\* Values.

\* null, of a string column or variable.
NULL == "null"

\* No component is mounted.
NoUI == [component |-> "none"]

\* null, of a timestamp column.
NoTime == -1

\* {data} of a request: null, or the rows.
NoData == [null |-> TRUE, rows |-> <<>>]
Data(rows) == [null |-> FALSE, rows |-> rows]

Minute == 60 * 1000
Day == 24 * 60 * 60 * 1000

NowInit == 16 * Day

Min(a, b) == IF a < b THEN a ELSE b

\* Array.prototype.slice(from, to) of a JavaScript array.
Slice(s, from, to) == SubSeq(s, from + 1, Min(to, Len(s)))

\* A faulty variant of Lt: a NULL column sorts before every value.
LtNullFirst(a, b) == a < b

\* PostgREST .lt(column, value): a NULL column matches nothing.
Lt(a, b) == a # NoTime /\ a < b

\* PostgREST .gte(column, value).
Gte(a, b) == a # NoTime /\ a >= b

\* A faulty variant of Unique: the user ids are not deduplicated.
UniqueKeepsAll(s) == s

\* [...new Set(userIds.map(l => l.user_id))]: first occurrences, in order.
RECURSIVE Unique(_)
Unique(s) ==
  IF s = <<>> THEN <<>>
  ELSE LET front == Unique(SubSeq(s, 1, Len(s) - 1))
           last == s[Len(s)]
       IN IF \E i \in 1..Len(front) : front[i] = last
          THEN front ELSE Append(front, last)

\* leads.select('user_id').not('user_id', 'is', null), as the mapped column.
RECURSIVE UserIdColumn(_)
UserIdColumn(rows) ==
  IF rows = <<>> THEN <<>>
  ELSE LET rest == UserIdColumn(Tail(rows))
       IN IF Head(rows).user_id # NULL
          THEN <<Head(rows).user_id>> \o rest ELSE rest

\* user_roles.select('email').eq('user_id', userId).single(), then
\* userRole?.email || `user-${userId}@unknown.com`; failed = request error.
UnknownEmail(userId) == "user-" \o userId \o "@unknown.com"

UserEmailOf(userId, failed) ==
  LET rows == {r \in user_roles : r.user_id = userId}
  IN IF ~failed /\ Cardinality(rows) = 1
     THEN (CHOOSE r \in rows : TRUE).email
     ELSE UnknownEmail(userId)

----------------------------------------------------------------------------
\* The rows the tables start with.


Lead(id, user_id, status, call_status, last_contact, created_at) ==
  [id |-> id, user_id |-> user_id, status |-> status,
   call_status |-> call_status, last_contact |-> last_contact,
   created_at |-> created_at]

\* Elapsed times since last_contact and since created_at, at NowInit.
ContactAges == {3 * Day, 4 * Day, 4 * Day + 1, 14 * Day, 14 * Day + 1}
CreatedAges == {14 * Day, 14 * Day + 1}

\* The first lead: owned by u1, every combination of the fields the
\* generators read (created_at is read for a lead not called only).
FirstLeads ==
  {Lead(1, "u1", st, "not_called", NowInit - a, NowInit - c) :
     st \in {"prospect", "closed-won", "closed-lost"},
     a \in ContactAges, c \in CreatedAges}
  \cup
  {Lead(1, "u1", st, "answered", NowInit - a, NowInit - 15 * Day) :
     st \in {"prospect", "closed-won", "closed-lost"}, a \in ContactAges}

\* The first leads that are paired with a second lead that has an owner.
PairedFirstLeads ==
  {first \in FirstLeads :
     first.call_status = "not_called"
       /\ first.created_at = NowInit - (14 * Day + 1)}

\* The second lead: no owner, the same owner, or another owner.
OrphanLead ==
  Lead(2, NULL, "qualified", "not_called", NowInit - 15 * Day,
       NowInit - 16 * Day)

SecondLeads ==
  {Lead(2, "u1", "qualified", "not_called", NowInit - 15 * Day,
        NowInit - 16 * Day),
   Lead(2, "u2", "qualified", "not_called", NowInit - 5 * Day,
        NowInit - 16 * Day)}

\* n further leads of u2, last contacted 5 days ago.
BulkLeads(n) ==
  [i \in 1..n |->
     Lead(2 + i, "u2", "proposal", "answered", NowInit - 5 * Day,
          NowInit - 10 * Day)]

BulkCounts == {11, 21}

\* The tables of leads a behaviour starts with: two leads, or two fixed
\* leads and many more of u2.
LeadTables ==
  {<<first, OrphanLead>> : first \in FirstLeads}
  \cup
  {<<first, second>> : first \in PairedFirstLeads, second \in SecondLeads}
  \cup
  {<<Lead(1, "u1", "prospect", "not_called", NowInit - 15 * Day,
          NowInit - 15 * Day),
     Lead(2, "u2", "qualified", "not_called", NowInit - 5 * Day,
          NowInit - 16 * Day)>> \o BulkLeads(n) : n \in BulkCounts}

\* user_roles: u2 has a row, u1 has none.
RoleTable == {[user_id |-> "u2", email |-> "tuomas@envaire.com"]}

\* admin_notifications: two AFK alerts, one two days old and one an hour old.
AFKAlert(id, created_at) ==
  [id |-> id, type |-> "inactive_salesman", bucket |-> "afk", count |-> 0,
   salesman_id |-> "u2", salesman_email |-> "tuomas@envaire.com",
   priority |-> "medium", leads |-> <<>>, is_read |-> FALSE,
   created_at |-> created_at]

NotificationTable ==
  <<AFKAlert(1, NowInit - 2 * Day), AFKAlert(2, NowInit - 60 * Minute)>>

----------------------------------------------------------------------------
\* Requests, responses and the locals of a handler.

\* An awaited request fails (returns {error}) or not; at most MaxFaults fail.
Outcomes == IF faults < MaxFaults THEN {FALSE, TRUE} ELSE {FALSE}

Count(failed) == IF failed THEN 1 ELSE 0

NoLocals ==
  [uniqueUserIds |-> <<>>, i |-> 1, userId |-> NULL, now |-> NoTime,
   fourDaysAgo |-> NoTime, twoWeeksAgo |-> NoTime, userEmail |-> NULL,
   overdueLeads |-> NoData, staleLeads |-> NoData, uncalledLeads |-> NoData,
   notifications |-> <<>>,
   \* history: the table at the start of the pass, the requests
   \* <<userId, request>> that failed, whether the delete or insert failed
   before |-> <<>>, failed |-> {}, deleteFailed |-> FALSE,
   insertFailed |-> FALSE]

\* No response yet.
NoResponse ==
  [status |-> 0, body |-> NULL, success |-> FALSE,
   notifications_created |-> 0, error |-> NULL]

\* new Response('ok', {headers: corsHeaders})
OptionsResponse ==
  [status |-> 200, body |-> "ok", success |-> FALSE,
   notifications_created |-> 0, error |-> NULL]

\* new Response(JSON.stringify({success: true, notifications_created}), 200)
SuccessResponse(notifications) ==
  [status |-> 200, body |-> "json", success |-> TRUE,
   notifications_created |-> Len(notifications), error |-> NULL]

\* new Response(JSON.stringify({error: error.message}), {status: 500})
ErrorResponse(message) ==
  [status |-> 500, body |-> "json", success |-> FALSE,
   notifications_created |-> 0, error |-> message]

\* .insert(notifications.map(n => ({...n, is_read: false}))): the rows the
\* table gains, with the id and created_at the database gives them.
InsertedRows(notifications) ==
  [k \in 1..Len(notifications) |->
     [id |-> nextId + k - 1, type |-> notifications[k].type,
      bucket |-> notifications[k].bucket, count |-> notifications[k].count,
      salesman_id |-> notifications[k].salesman_id,
      salesman_email |-> notifications[k].salesman_email,
      priority |-> notifications[k].priority,
      leads |-> notifications[k].leads,
      is_read |-> FALSE, created_at |-> now]]

\* The handler returns: the pass is recorded and the handler is free again.
Return(resp, locals, table) ==
  /\ response' = resp
  /\ hist' = Append(hist, [fn |-> fn, before |-> locals.before,
                           after |-> table, response |-> resp,
                           notifications |-> locals.notifications,
                           uniqueUserIds |-> locals.uniqueUserIds,
                           failed |-> locals.failed,
                           deleteFailed |-> locals.deleteFailed,
                           insertFailed |-> locals.insertFailed])
  /\ fn' = "none"
  /\ pc' = "idle"

\* A faulty variant of HttpRequest: an OPTIONS request starts a pass too.
HttpRequestRunsPass(f, method) ==
  /\ fn = "none"
  /\ Len(hist) < MaxPasses
  /\ response' = IF method = "OPTIONS" THEN OptionsResponse ELSE NoResponse
  /\ fn' = f
  /\ pc' = IF f = "auto" THEN "userIds" ELSE "delete"
  /\ loc' = [NoLocals EXCEPT !.before = admin_notifications]
  /\ UNCHANGED <<leads, user_roles, admin_notifications, activity_logs, now,
                 nextId, salesmen, mr_loading, hist, faults>>
  /\ UNCHANGED ui

\* serve(async (req) => ...) of either function: the OPTIONS preflight is
\* answered at once, any other request starts a pass.
HttpRequest(f, method) ==
  /\ fn = "none"
  /\ Len(hist) < MaxPasses
  /\ IF method = "OPTIONS"
     THEN /\ response' = OptionsResponse
          /\ UNCHANGED <<fn, pc, loc>>
     ELSE /\ response' = NoResponse
          /\ fn' = f
          /\ pc' = IF f = "auto" THEN "userIds" ELSE "delete"
          /\ loc' = [NoLocals EXCEPT !.before = admin_notifications]
  /\ UNCHANGED <<leads, user_roles, admin_notifications, activity_logs, now,
                 nextId, salesmen, mr_loading, hist, faults>>
  /\ UNCHANGED ui

----------------------------------------------------------------------------
\* auto-generate-notifications.

Ids(rows) == [k \in 1..Len(rows) |-> rows[k].id]

\* Overdue leads (4+ days) of a user.
AutoOverdueLeads(userId, fourDaysAgo) ==
  SelectSeq(leads, LAMBDA l :
    /\ l.user_id = userId
    /\ Lt(l.last_contact, fourDaysAgo)
    /\ l.status # "closed-won"
    /\ l.status # "closed-lost")

\* Stale leads (2+ weeks) of a user.
AutoStaleLeads(userId, twoWeeksAgo) ==
  SelectSeq(leads, LAMBDA l :
    /\ l.user_id = userId
    /\ Lt(l.last_contact, twoWeeksAgo)
    /\ l.status # "closed-won"
    /\ l.status # "closed-lost")

AutoOverduePriority(n) == IF n > 10 THEN "high" ELSE "medium"

AutoOverdueNotification(userId, userEmail, overdueLeads) ==
  [type |-> "stale_lead", bucket |-> "overdue", count |-> Len(overdueLeads),
   salesman_id |-> userId, salesman_email |-> userEmail,
   priority |-> AutoOverduePriority(Len(overdueLeads)),
   leads |-> Slice(Ids(overdueLeads), 0, 5)]

AutoStaleNotification(userId, userEmail, staleLeads) ==
  [type |-> "stale_lead", bucket |-> "stale", count |-> Len(staleLeads),
   salesman_id |-> userId, salesman_email |-> userEmail,
   priority |-> "high",
   leads |-> Slice(Ids(staleLeads), 0, 5)]

\* The notifications pushed for one user, from the two query results
\* (NULL: the query returned no data).
AutoPush(userId, userEmail, overdueLeads, staleLeads) ==
  (IF ~overdueLeads.null /\ Len(overdueLeads.rows) > 0
   THEN <<AutoOverdueNotification(userId, userEmail, overdueLeads.rows)>>
   ELSE <<>>)
  \o
  (IF ~staleLeads.null /\ Len(staleLeads.rows) > 0
   THEN <<AutoStaleNotification(userId, userEmail, staleLeads.rows)>>
   ELSE <<>>)

\* Rows left by the clearing of old notifications (older than 24 hours).
AutoCleared(table, at) ==
  SelectSeq(table, LAMBDA r : ~Lt(r.created_at, at - Day))

\* Where the per-user loop goes after user i.
AfterUser(locals) ==
  IF locals.i < Len(locals.uniqueUserIds) THEN "role" ELSE "insert"

\* The response after the insert of the notifications failed.
AutoAfterInsertError(notifications) == SuccessResponse(notifications)

AutoFetchUserIds ==
  /\ fn = "auto" /\ pc = "userIds"
  /\ \E failed \in Outcomes :
       /\ faults' = faults + Count(failed)
       /\ IF failed
          THEN /\ Return(ErrorResponse("userIdsError"), loc,
                         admin_notifications)
               /\ UNCHANGED loc
          ELSE /\ loc' = [loc EXCEPT
                            !.uniqueUserIds = Unique(UserIdColumn(leads)),
                            !.now = now,
                            !.fourDaysAgo = now - 4 * Day,
                            !.twoWeeksAgo = now - 14 * Day]
               /\ pc' = "delete"
               /\ UNCHANGED <<fn, response, hist>>
  /\ UNCHANGED <<leads, user_roles, admin_notifications, activity_logs, now,
                 nextId, salesmen, mr_loading>>
  /\ UNCHANGED ui

AutoDelete ==
  /\ fn = "auto" /\ pc = "delete"
  /\ \E failed \in Outcomes :
       /\ faults' = faults + Count(failed)
       /\ admin_notifications' =
            IF failed THEN admin_notifications
            ELSE AutoCleared(admin_notifications, loc.now)
       /\ loc' = [loc EXCEPT !.deleteFailed = failed]
  /\ pc' = IF loc.uniqueUserIds = <<>> THEN "insert" ELSE "role"
  /\ UNCHANGED <<leads, user_roles, activity_logs, now, nextId, fn,
                 response, salesmen, mr_loading, hist>>
  /\ UNCHANGED ui

AutoUserRole ==
  /\ fn = "auto" /\ pc = "role"
  /\ \E failed \in Outcomes :
       /\ faults' = faults + Count(failed)
       /\ loc' = [loc EXCEPT
                    !.userId = loc.uniqueUserIds[loc.i],
                    !.userEmail = UserEmailOf(loc.uniqueUserIds[loc.i], failed),
                    !.overdueLeads = NoData,
                    !.staleLeads = NoData,
                    !.failed =
                       IF failed
                       THEN @ \cup {<<loc.uniqueUserIds[loc.i], "role">>}
                       ELSE @]
  /\ pc' = "overdue"
  /\ UNCHANGED <<leads, user_roles, admin_notifications, activity_logs, now,
                 nextId, fn, response, salesmen, mr_loading, hist>>
  /\ UNCHANGED ui

AutoOverdue ==
  /\ fn = "auto" /\ pc = "overdue"
  /\ \E failed \in Outcomes :
       /\ faults' = faults + Count(failed)
       /\ loc' = [loc EXCEPT
                    !.overdueLeads =
                       IF failed THEN NoData
                       ELSE Data(AutoOverdueLeads(loc.userId,
                                                  loc.fourDaysAgo)),
                    !.failed =
                       IF failed THEN @ \cup {<<loc.userId, "overdue">>}
                       ELSE @]
  /\ pc' = "stale"
  /\ UNCHANGED <<leads, user_roles, admin_notifications, activity_logs, now,
                 nextId, fn, response, salesmen, mr_loading, hist>>
  /\ UNCHANGED ui

AutoStale ==
  /\ fn = "auto" /\ pc = "stale"
  /\ \E failed \in Outcomes :
       LET userId == loc.userId
           staleLeads == IF failed THEN NoData
                         ELSE Data(AutoStaleLeads(userId, loc.twoWeeksAgo))
       IN /\ faults' = faults + Count(failed)
          /\ loc' = [loc EXCEPT
                       !.staleLeads = staleLeads,
                       !.notifications =
                          @ \o AutoPush(userId, loc.userEmail,
                                        loc.overdueLeads, staleLeads),
                       !.failed = IF failed THEN @ \cup {<<userId, "stale">>}
                                  ELSE @,
                       !.i = @ + 1]
  /\ pc' = AfterUser(loc)
  /\ UNCHANGED <<leads, user_roles, admin_notifications, activity_logs, now,
                 nextId, fn, response, salesmen, mr_loading, hist>>
  /\ UNCHANGED ui

AutoInsert ==
  /\ fn = "auto" /\ pc = "insert"
  /\ IF Len(loc.notifications) > 0
     THEN \E failed \in Outcomes :
            LET locals == [loc EXCEPT !.insertFailed = failed]
                table == IF failed THEN admin_notifications
                         ELSE admin_notifications
                                \o InsertedRows(loc.notifications)
            IN /\ faults' = faults + Count(failed)
               /\ admin_notifications' = table
               /\ nextId' = IF failed THEN nextId
                            ELSE nextId + Len(loc.notifications)
               /\ loc' = locals
               /\ Return(IF failed
                         THEN AutoAfterInsertError(loc.notifications)
                         ELSE SuccessResponse(loc.notifications),
                         locals, table)
     ELSE /\ Return(SuccessResponse(loc.notifications), loc,
                    admin_notifications)
          /\ UNCHANGED <<admin_notifications, nextId, loc, faults>>
  /\ UNCHANGED <<leads, user_roles, activity_logs, now, salesmen, mr_loading>>
  /\ UNCHANGED ui

----------------------------------------------------------------------------
\* generate-admin-notifications.

\* Overdue leads (4+ days) of a user.
GenOverdueLeads(userId, fourDaysAgo) ==
  SelectSeq(leads, LAMBDA l :
    /\ l.user_id = userId
    /\ Lt(l.last_contact, fourDaysAgo)
    /\ l.status # "closed-won"
    /\ l.status # "closed-lost")

\* Stale leads (2+ weeks) of a user.
GenStaleLeads(userId, twoWeeksAgo) ==
  SelectSeq(leads, LAMBDA l :
    /\ l.user_id = userId
    /\ Lt(l.last_contact, twoWeeksAgo)
    /\ l.status # "closed-won"
    /\ l.status # "closed-lost")

\* Uncalled leads (2+ weeks old) of a user.
GenUncalledLeads(userId, twoWeeksAgo) ==
  SelectSeq(leads, LAMBDA l :
    /\ l.user_id = userId
    /\ l.call_status = "not_called"
    /\ Lt(l.created_at, twoWeeksAgo))

GenOverduePriority(n) ==
  IF n > 20 THEN "high" ELSE IF n > 10 THEN "medium" ELSE "low"

GenUncalledPriority(n) ==
  IF n > 5 THEN "high" ELSE IF n > 2 THEN "medium" ELSE "low"

GenOverdueNotification(userId, userEmail, overdueLeads) ==
  [type |-> "stale_lead", bucket |-> "overdue", count |-> Len(overdueLeads),
   salesman_id |-> userId, salesman_email |-> userEmail,
   priority |-> GenOverduePriority(Len(overdueLeads)),
   leads |-> Slice(Ids(overdueLeads), 0, 10)]

GenStaleNotification(userId, userEmail, staleLeads) ==
  [type |-> "stale_lead", bucket |-> "stale", count |-> Len(staleLeads),
   salesman_id |-> userId, salesman_email |-> userEmail,
   priority |-> "high",
   leads |-> Slice(Ids(staleLeads), 0, 10)]

GenUncalledNotification(userId, userEmail, uncalledLeads) ==
  [type |-> "no_calls", bucket |-> "uncalled", count |-> Len(uncalledLeads),
   salesman_id |-> userId, salesman_email |-> userEmail,
   priority |-> GenUncalledPriority(Len(uncalledLeads)),
   leads |-> Slice(Ids(uncalledLeads), 0, 10)]

\* The notifications pushed for one user, from the three query results.
GenPush(userId, userEmail, overdueLeads, staleLeads, uncalledLeads) ==
  (IF ~overdueLeads.null /\ Len(overdueLeads.rows) > 0
   THEN <<GenOverdueNotification(userId, userEmail, overdueLeads.rows)>>
   ELSE <<>>)
  \o
  (IF ~staleLeads.null /\ Len(staleLeads.rows) > 0
   THEN <<GenStaleNotification(userId, userEmail, staleLeads.rows)>>
   ELSE <<>>)
  \o
  (IF ~uncalledLeads.null /\ Len(uncalledLeads.rows) > 0
   THEN <<GenUncalledNotification(userId, userEmail, uncalledLeads.rows)>>
   ELSE <<>>)

\* Rows left by the clearing of old notifications (last 24 hours).
GenCleared(table, at) ==
  SelectSeq(table, LAMBDA r : ~Gte(r.created_at, at - Day))

\* A faulty variant of GenAfterFetchError: `break` instead of `continue`.
GenBreakAfterFetchError(locals) == "insert"

\* Where the per-user loop goes when a query of user i returned an error:
\* `continue`.
GenAfterFetchError(locals) == AfterUser(locals)

\* The response after the insert of the notifications failed: the error is
\* thrown and caught by the handler.
GenAfterInsertError(notifications) == ErrorResponse("insertError")

GenDelete ==
  /\ fn = "gen" /\ pc = "delete"
  /\ \E failed \in Outcomes :
       /\ faults' = faults + Count(failed)
       /\ admin_notifications' =
            IF failed THEN admin_notifications
            ELSE GenCleared(admin_notifications, now)
       /\ loc' = [loc EXCEPT !.deleteFailed = failed]
  /\ pc' = "userIds"
  /\ UNCHANGED <<leads, user_roles, activity_logs, now, nextId, fn,
                 response, salesmen, mr_loading, hist>>
  /\ UNCHANGED ui

GenFetchUserIds ==
  /\ fn = "gen" /\ pc = "userIds"
  /\ \E failed \in Outcomes :
       /\ faults' = faults + Count(failed)
       /\ IF failed
          THEN /\ Return(ErrorResponse("userIdsError"), loc,
                         admin_notifications)
               /\ UNCHANGED loc
          ELSE LET uniqueUserIds == Unique(UserIdColumn(leads))
               IN /\ loc' = [loc EXCEPT !.uniqueUserIds = uniqueUserIds]
                  /\ pc' = IF uniqueUserIds = <<>> THEN "insert" ELSE "role"
                  /\ UNCHANGED <<fn, response, hist>>
  /\ UNCHANGED <<leads, user_roles, admin_notifications, activity_logs, now,
                 nextId, salesmen, mr_loading>>
  /\ UNCHANGED ui

GenUserRole ==
  /\ fn = "gen" /\ pc = "role"
  /\ \E failed \in Outcomes :
       /\ faults' = faults + Count(failed)
       /\ loc' = [loc EXCEPT
                    !.userId = loc.uniqueUserIds[loc.i],
                    !.userEmail = UserEmailOf(loc.uniqueUserIds[loc.i], failed),
                    !.now = now,
                    !.fourDaysAgo = now - 4 * Day,
                    !.twoWeeksAgo = now - 14 * Day,
                    !.overdueLeads = NoData,
                    !.staleLeads = NoData,
                    !.uncalledLeads = NoData,
                    !.failed =
                       IF failed
                       THEN @ \cup {<<loc.uniqueUserIds[loc.i], "role">>}
                       ELSE @]
  /\ pc' = "overdue"
  /\ UNCHANGED <<leads, user_roles, admin_notifications, activity_logs, now,
                 nextId, fn, response, salesmen, mr_loading, hist>>
  /\ UNCHANGED ui

GenOverdue ==
  /\ fn = "gen" /\ pc = "overdue"
  /\ \E failed \in Outcomes :
       LET userId == loc.userId
       IN /\ faults' = faults + Count(failed)
          /\ IF failed
             THEN /\ loc' = [loc EXCEPT !.overdueLeads = NoData,
                                        !.failed = @ \cup {<<userId, "overdue">>},
                                        !.i = @ + 1]
                  /\ pc' = GenAfterFetchError(loc)
             ELSE /\ loc' = [loc EXCEPT !.overdueLeads =
                               Data(GenOverdueLeads(userId, loc.fourDaysAgo))]
                  /\ pc' = "stale"
  /\ UNCHANGED <<leads, user_roles, admin_notifications, activity_logs, now,
                 nextId, fn, response, salesmen, mr_loading, hist>>
  /\ UNCHANGED ui

GenStale ==
  /\ fn = "gen" /\ pc = "stale"
  /\ \E failed \in Outcomes :
       LET userId == loc.userId
       IN /\ faults' = faults + Count(failed)
          /\ IF failed
             THEN /\ loc' = [loc EXCEPT !.staleLeads = NoData,
                                        !.failed = @ \cup {<<userId, "stale">>},
                                        !.i = @ + 1]
                  /\ pc' = GenAfterFetchError(loc)
             ELSE /\ loc' = [loc EXCEPT !.staleLeads =
                               Data(GenStaleLeads(userId, loc.twoWeeksAgo))]
                  /\ pc' = "uncalled"
  /\ UNCHANGED <<leads, user_roles, admin_notifications, activity_logs, now,
                 nextId, fn, response, salesmen, mr_loading, hist>>
  /\ UNCHANGED ui

GenUncalled ==
  /\ fn = "gen" /\ pc = "uncalled"
  /\ \E failed \in Outcomes :
       LET userId == loc.userId
           uncalledLeads == Data(GenUncalledLeads(userId, loc.twoWeeksAgo))
       IN /\ faults' = faults + Count(failed)
          /\ IF failed
             THEN /\ loc' = [loc EXCEPT !.uncalledLeads = NoData,
                                        !.failed = @ \cup {<<userId, "uncalled">>},
                                        !.i = @ + 1]
                  /\ pc' = GenAfterFetchError(loc)
             ELSE /\ loc' = [loc EXCEPT
                               !.uncalledLeads = uncalledLeads,
                               !.notifications =
                                  @ \o GenPush(userId, loc.userEmail,
                                               loc.overdueLeads,
                                               loc.staleLeads, uncalledLeads),
                               !.i = @ + 1]
                  /\ pc' = AfterUser(loc)
  /\ UNCHANGED <<leads, user_roles, admin_notifications, activity_logs, now,
                 nextId, fn, response, salesmen, mr_loading, hist>>
  /\ UNCHANGED ui

GenInsert ==
  /\ fn = "gen" /\ pc = "insert"
  /\ IF Len(loc.notifications) > 0
     THEN \E failed \in Outcomes :
            LET locals == [loc EXCEPT !.insertFailed = failed]
                table == IF failed THEN admin_notifications
                         ELSE admin_notifications
                                \o InsertedRows(loc.notifications)
            IN /\ faults' = faults + Count(failed)
               /\ admin_notifications' = table
               /\ nextId' = IF failed THEN nextId
                            ELSE nextId + Len(loc.notifications)
               /\ loc' = locals
               /\ Return(IF failed
                         THEN GenAfterInsertError(loc.notifications)
                         ELSE SuccessResponse(loc.notifications),
                         locals, table)
     ELSE /\ Return(SuccessResponse(loc.notifications), loc,
                    admin_notifications)
          /\ UNCHANGED <<admin_notifications, nextId, loc, faults>>
  /\ UNCHANGED <<leads, user_roles, activity_logs, now, salesmen, mr_loading>>
  /\ UNCHANGED ui

----------------------------------------------------------------------------
\* The two HTTP functions over every starting table.

Init ==
  /\ leads \in LeadTables
  /\ user_roles = RoleTable
  /\ admin_notifications = NotificationTable
  /\ activity_logs = {}
  /\ now = NowInit
  /\ nextId = Len(NotificationTable) + 1
  /\ fn = "none"
  /\ pc = "idle"
  /\ loc = NoLocals
  /\ response = NoResponse
  /\ salesmen = <<>>
  /\ mr_loading = TRUE
  /\ hist = <<>>
  /\ faults = 0
  /\ ui = NoUI

Next ==
  \/ \E f \in {"auto", "gen"}, method \in {"OPTIONS", "POST"} :
       HttpRequest(f, method)
  \/ AutoFetchUserIds
  \/ AutoDelete
  \/ AutoUserRole
  \/ AutoOverdue
  \/ AutoStale
  \/ AutoInsert
  \/ GenDelete
  \/ GenFetchUserIds
  \/ GenUserRole
  \/ GenOverdue
  \/ GenStale
  \/ GenUncalled
  \/ GenInsert

Spec == Init /\ [][Next]_vars

----------------------------------------------------------------------------
\* MonitoringRoom: fetchSalesmen.

\* AFK Detection thresholds.
AFK_THRESHOLD == 10 * Minute
IDLE_THRESHOLD == 30 * Minute

salesmenEmails ==
  <<"jukka@envaire.com", "tuomas@envaire.com", "jesse@envaire.com",
    "tuukka@envaire.com">>

\* `demo-${email.split('@')[0]}`
DemoUserId(email) ==
  CASE email = "jukka@envaire.com" -> "demo-jukka"
    [] email = "tuomas@envaire.com" -> "demo-tuomas"
    [] email = "jesse@envaire.com" -> "demo-jesse"
    [] OTHER -> "demo-tuukka"

\* from('user_roles').eq('email', email).maybeSingle(): the row, when there
\* is exactly one.
RoleOfEmail(email) ==
  LET rows == {r \in user_roles : r.email = email}
  IN IF Cardinality(rows) = 1 THEN Data(<<CHOOSE r \in rows : TRUE>>)
     ELSE NoData

\* from('activity_logs').eq('user_email', email)
\*   .order('timestamp', {ascending: false}).limit(1)
RecentActivity(email) ==
  LET rows == {a \in activity_logs : a.user_email = email}
  IN IF rows = {} THEN <<>>
     ELSE <<CHOOSE a \in rows : \A b \in rows : b.timestamp <= a.timestamp>>

\* today.setHours(0, 0, 0, 0), in a time zone without offset.
Today(at) == at - (at % Day)

\* The exact count of the activity_logs rows of email with
\* timestamp >= today.
ActivityCount(email, at) ==
  Cardinality({a \in activity_logs :
                 a.user_email = email /\ Gte(a.timestamp, Today(at))})

\* A faulty variant of OnlineStatus: the 5-minute bound is inclusive.
OnlineStatusInclusive(isOnline, lastActivity, at) ==
  IF isOnline /\ lastActivity # NoTime
  THEN LET timeDiff == at - lastActivity
       IN IF timeDiff <= 5 * Minute THEN "online"
          ELSE IF timeDiff < AFK_THRESHOLD THEN "idle"
          ELSE IF timeDiff < IDLE_THRESHOLD THEN "afk"
          ELSE "idle"
  ELSE IF isOnline /\ lastActivity = NoTime THEN "online"
  ELSE "offline"

\* Determine online status.
OnlineStatus(isOnline, lastActivity, at) ==
  IF isOnline /\ lastActivity # NoTime
  THEN LET timeDiff == at - lastActivity
       IN IF timeDiff < 5 * Minute THEN "online"
          ELSE IF timeDiff < AFK_THRESHOLD THEN "idle"
          ELSE IF timeDiff < IDLE_THRESHOLD THEN "afk"
          ELSE "idle"
  ELSE IF isOnline /\ lastActivity = NoTime THEN "online"
  ELSE IF ~isOnline /\ lastActivity # NoTime THEN "offline"
  ELSE "offline"

Second == 1000

\* setInterval(() => fetchSalesmen(), 30000)
StatusPeriod == 30 * Second

\* setInterval(() => generateAFKNotifications(), 2 * 60 * 1000)
AfkCheckPeriod == 2 * Minute

\* MonitoringRoom just mounted by an admin: both intervals are set.
MonitoringRoomUI ==
  [component |-> "MonitoringRoom", statusInterval |-> StatusPeriod,
   afkCheckInterval |-> AfkCheckPeriod, inFlight |-> 1]

\* setSalesmen(salesmenWithStats) gives `salesmen` a new array: the effect
\* with deps [isAdmin, salesmen] is cleaned up (clearInterval) and run again
\* (setInterval), so the AFK check is due a full period from now.
EffectsOfSetSalesmen(u) ==
  IF u.component = "MonitoringRoom"
  THEN [u EXCEPT !.afkCheckInterval = AfkCheckPeriod]
  ELSE u

\* The locals of fetchSalesmen.
MonLocals ==
  [i |-> 1, userId |-> NULL, isOnline |-> FALSE, lastActivity |-> NoTime,
   salesmenWithStats |-> <<>>]

\* fetchSalesmen is called: on mount, every 30 seconds, and on every change
\* of activity_logs.
FetchSalesmen ==
  /\ fn = "none"
  /\ fn' = "fetchSalesmen"
  /\ pc' = "role"
  /\ loc' = MonLocals
  /\ UNCHANGED <<leads, user_roles, admin_notifications, activity_logs, now,
                 nextId, response, salesmen, mr_loading, hist, faults>>
  /\ UNCHANGED ui

\* The user_roles lookup of the i-th email.
MonUserRole ==
  /\ fn = "fetchSalesmen"
  /\ pc = "role"
  /\ LET email == salesmenEmails[loc.i]
         userRole == RoleOfEmail(email)
     IN loc' = [loc EXCEPT
                  !.userId = IF userRole.null THEN DemoUserId(email)
                             ELSE userRole.rows[1].user_id,
                  !.isOnline = ~userRole.null,
                  !.lastActivity = NoTime]
  /\ pc' = "recent"
  /\ UNCHANGED <<leads, user_roles, admin_notifications, activity_logs, now,
                 nextId, fn, response, salesmen, mr_loading, hist, faults>>
  /\ UNCHANGED ui

\* The most recent activity of the i-th email.
MonRecentActivity ==
  /\ fn = "fetchSalesmen"
  /\ pc = "recent"
  /\ LET recentActivity == RecentActivity(salesmenEmails[loc.i])
     IN loc' = [loc EXCEPT
                  !.lastActivity = IF Len(recentActivity) > 0
                                   THEN recentActivity[1].timestamp
                                   ELSE NoTime]
  /\ pc' = "count"
  /\ UNCHANGED <<leads, user_roles, admin_notifications, activity_logs, now,
                 nextId, fn, response, salesmen, mr_loading, hist, faults>>
  /\ UNCHANGED ui

\* Today's activity count of the i-th email, its status, and the push.
MonActivityCount ==
  /\ fn = "fetchSalesmen"
  /\ pc = "count"
  /\ LET email == salesmenEmails[loc.i]
         stats == [user_id |-> loc.userId,
                   email |-> email,
                   last_activity |-> loc.lastActivity,
                   total_actions |-> ActivityCount(email, now),
                   online_status |->
                     OnlineStatus(loc.isOnline, loc.lastActivity, now)]
     IN loc' = [loc EXCEPT
                  !.salesmenWithStats = Append(@, stats),
                  !.i = @ + 1]
  /\ pc' = IF loc.i < Len(salesmenEmails) THEN "role" ELSE "set"
  /\ UNCHANGED <<leads, user_roles, admin_notifications, activity_logs, now,
                 nextId, fn, response, salesmen, mr_loading, hist, faults>>
  /\ UNCHANGED ui

\* setSalesmen(salesmenWithStats), and setLoading(false) in the finally.
MonSetSalesmen ==
  /\ fn = "fetchSalesmen"
  /\ pc = "set"
  /\ salesmen' = loc.salesmenWithStats
  /\ mr_loading' = FALSE
  /\ fn' = "none"
  /\ pc' = "idle"
  /\ ui' = EffectsOfSetSalesmen(ui)
  /\ UNCHANGED <<leads, user_roles, admin_notifications, activity_logs, now,
                 nextId, loc, response, hist, faults>>

\* The time of the monitoring session: noon of the day of NowInit.
MonNow == NowInit + 12 * 60 * Minute

JukkaRole == [user_id |-> "u1", email |-> "jukka@envaire.com"]

Activity(email, age) == [user_email |-> email, timestamp |-> MonNow - age]

\* Ages of a last activity, on both sides of every threshold.
ActivityAges ==
  {5 * Minute - 1, 5 * Minute, AFK_THRESHOLD - 1, AFK_THRESHOLD,
   IDLE_THRESHOLD - 1, IDLE_THRESHOLD, 3 * Day}

\* No activity, one activity, or one activity and an older one.
ActivitiesOf(email) ==
  {{}}
  \cup {{Activity(email, age)} : age \in ActivityAges}
  \cup {{Activity(email, age), Activity(email, 3 * Day)} :
          age \in ActivityAges \ {3 * Day}}

MonInit ==
  /\ leads = <<>>
  /\ user_roles \in {RoleTable, RoleTable \cup {JukkaRole}}
  /\ admin_notifications = NotificationTable
  /\ \E jukka \in ActivitiesOf("jukka@envaire.com"),
        tuomas \in {{}, {Activity("tuomas@envaire.com", 11 * Minute)}},
        jesse \in {{}, {Activity("jesse@envaire.com", Minute)}} :
       activity_logs = jukka \cup tuomas \cup jesse
  /\ now = MonNow
  /\ nextId = Len(NotificationTable) + 1
  /\ fn = "none"
  /\ pc = "idle"
  /\ loc = MonLocals
  /\ response = NoResponse
  /\ salesmen = <<>>
  /\ mr_loading = TRUE
  /\ hist = <<>>
  /\ faults = 0
  /\ ui = NoUI

MonNext ==
  \/ FetchSalesmen
  \/ MonUserRole
  \/ MonRecentActivity
  \/ MonActivityCount
  \/ MonSetSalesmen

SpecMon == MonInit /\ [][MonNext]_vars

----------------------------------------------------------------------------
\* MonitoringRoom open on an admin's screen: the status refresh every 30
\* seconds and the AFK check every 2 minutes.  A fetchSalesmen call is in
\* flight from the moment it is called until it calls setSalesmen; it reads
\* the tables when it completes.

\* At most this many fetchSalesmen calls are in flight.
MaxInFlight == 4

\* At most this many rows of admin_notifications are followed.
MaxAlertRows == 2

\* What one iteration of the loop of fetchSalesmen pushes for an email.
SalesmanStats(email, at) ==
  LET userRole == RoleOfEmail(email)
      recentActivity == RecentActivity(email)
      lastActivity == IF Len(recentActivity) > 0
                      THEN recentActivity[1].timestamp ELSE NoTime
  IN [user_id |-> IF userRole.null THEN DemoUserId(email)
                  ELSE userRole.rows[1].user_id,
      email |-> email,
      last_activity |-> lastActivity,
      total_actions |-> ActivityCount(email, at),
      online_status |-> OnlineStatus(~userRole.null, lastActivity, at)]

SalesmenWithStats(at) ==
  [k \in 1..Len(salesmenEmails) |-> SalesmanStats(salesmenEmails[k], at)]

\* generateAFKNotifications: one notification for each afk salesman.
AfkNotifications(list) ==
  LET afkSalesmen == SelectSeq(list, LAMBDA s : s.online_status = "afk")
  IN [k \in 1..Len(afkSalesmen) |->
        [type |-> "inactive_salesman", bucket |-> "afk", count |-> 0,
         salesman_id |-> afkSalesmen[k].user_id,
         salesman_email |-> afkSalesmen[k].email,
         priority |-> "medium", leads |-> <<>>]]

\* The admin opens MonitoringRoom: fetchSalesmen is called and both
\* intervals are set.
MountMonitoringRoom ==
  /\ ui = NoUI
  /\ ui' = MonitoringRoomUI
  /\ UNCHANGED <<leads, user_roles, admin_notifications, activity_logs, now,
                 nextId, fn, pc, loc, response, salesmen, mr_loading, hist,
                 faults>>

\* The status interval is due: fetchSalesmen is called once more.
StatusIntervalFires ==
  /\ ui.component = "MonitoringRoom"
  /\ ui.statusInterval = 0
  /\ ui.inFlight < MaxInFlight
  /\ ui' = [ui EXCEPT !.statusInterval = StatusPeriod, !.inFlight = @ + 1]
  /\ UNCHANGED <<leads, user_roles, admin_notifications, activity_logs, now,
                 nextId, fn, pc, loc, response, salesmen, mr_loading, hist,
                 faults>>

\* A fetchSalesmen call completes: setSalesmen(salesmenWithStats),
\* setLoading(false), and the effects that depend on `salesmen` run again.
FetchSalesmenCompletes ==
  /\ ui.component = "MonitoringRoom"
  /\ ui.inFlight > 0
  /\ salesmen' = SalesmenWithStats(now)
  /\ mr_loading' = FALSE
  /\ ui' = EffectsOfSetSalesmen([ui EXCEPT !.inFlight = @ - 1])
  /\ UNCHANGED <<leads, user_roles, admin_notifications, activity_logs, now,
                 nextId, fn, pc, loc, response, hist, faults>>

\* The AFK check interval is due: generateAFKNotifications.  Every check
\* inserts a row for every afk salesman again; the table is followed up to
\* its first MaxAlertRows rows.
AfkCheckIntervalFires ==
  /\ ui.component = "MonitoringRoom"
  /\ ui.afkCheckInterval = 0
  /\ admin_notifications' =
       Slice(admin_notifications \o InsertedRows(AfkNotifications(salesmen)),
             0, MaxAlertRows)
  /\ nextId' = Min(nextId + Len(AfkNotifications(salesmen)),
                   MaxAlertRows + 1)
  /\ ui' = [ui EXCEPT !.afkCheckInterval = AfkCheckPeriod]
  /\ UNCHANGED <<leads, user_roles, activity_logs, now, fn, pc, loc,
                 response, salesmen, mr_loading, hist, faults>>

\* Some activity is recent enough for a status to change as time passes.
ClockMatters ==
  \E a \in activity_logs : now - a.timestamp < IDLE_THRESHOLD

\* 30 seconds pass while no interval is due.  The clock is advanced as long
\* as a status can still change with it.
TimePasses ==
  /\ ui.component = "MonitoringRoom"
  /\ ui.statusInterval > 0
  /\ ui.afkCheckInterval > 0
  /\ now' = IF ClockMatters THEN now + StatusPeriod ELSE now
  /\ ui' = [ui EXCEPT !.statusInterval = @ - StatusPeriod,
                      !.afkCheckInterval = @ - StatusPeriod]
  /\ UNCHANGED <<leads, user_roles, admin_notifications, activity_logs,
                 nextId, fn, pc, loc, response, salesmen, mr_loading, hist,
                 faults>>

\* jukka is logged in; his last activity was 22 minutes ago (afk for 8
\* minutes to come), or is the activity 'Create Old Activity' inserts
\* (5 and 3 days ago).
AfkActivities ==
  {{Activity("jukka@envaire.com", 22 * Minute)},
   {Activity("jukka@envaire.com", 5 * Day),
    Activity("jukka@envaire.com", 3 * Day)}}

AfkInit ==
  /\ leads = <<>>
  /\ user_roles = RoleTable \cup {JukkaRole}
  /\ admin_notifications = <<>>
  /\ activity_logs \in AfkActivities
  /\ now = MonNow
  /\ nextId = 1
  /\ fn = "none"
  /\ pc = "idle"
  /\ loc = MonLocals
  /\ response = NoResponse
  /\ salesmen = <<>>
  /\ mr_loading = TRUE
  /\ hist = <<>>
  /\ faults = 0
  /\ ui = NoUI

AfkNext ==
  \/ MountMonitoringRoom
  \/ StatusIntervalFires
  \/ FetchSalesmenCompletes
  \/ AfkCheckIntervalFires
  \/ TimePasses

\* The intervals fire when due, time passes, and every request is answered.
SpecAfk ==
  /\ AfkInit
  /\ [][AfkNext]_vars
  /\ WF_vars(StatusIntervalFires)
  /\ WF_vars(FetchSalesmenCompletes)
  /\ WF_vars(AfkCheckIntervalFires)
  /\ WF_vars(TimePasses)
  /\ WF_vars(MountMonitoringRoom)

----------------------------------------------------------------------------
\* TestNotifications: createTestLeads, createTestActivityLogs and
\* cleanupTestData of the logged-in user.  Texts that a query matches with
\* LIKE are sequences of characters.

\* Each of the two create handlers runs at most this many times.
MaxCreates == 2

\* The logged-in user (useAuth()).
TestUser == [id |-> "u1", email |-> "jukka@envaire.com"]

ViewedLeadsPage ==
  <<"V", "i", "e", "w", "e", "d", " ", "l", "e", "a", "d", "s", " ",
    "p", "a", "g", "e">>

UpdatedLeadStatus ==
  <<"U", "p", "d", "a", "t", "e", "d", " ", "l", "e", "a", "d", " ",
    "s", "t", "a", "t", "u", "s">>

\* s LIKE '%' || p || '%'
Contains(s, p) ==
  \E i \in 1..(Len(s) - Len(p) + 1) : SubSeq(s, i, i + Len(p) - 1) = p

\* .like('action_details', '%test%')
LikeTest(action_details) == Contains(action_details, <<"t", "e", "s", "t">>)

TestLead(name, status, call_status, industry, contactAge, createdAge) ==
  [user_id |-> TestUser.id, name |-> name, status |-> status,
   call_status |-> call_status, industry |-> industry,
   last_contact |-> now - contactAge, created_at |-> now - createdAge]

\* const testLeads = [...]
testLeads ==
  <<TestLead("Test Lead - 5 Days Overdue", "prospect", "not_called",
             "Testing", 5 * Day, 10 * Day),
    TestLead("Test Lead - 1 Week Overdue", "qualified", "answered",
             "Testing", 7 * Day, 14 * Day),
    TestLead("Test Lead - 2 Weeks Overdue (CRITICAL)", "proposal",
             "voicemail", "Testing", 15 * Day, 20 * Day),
    [TestLead("Test Lead - 3 Weeks Overdue (CRITICAL)", "negotiation",
              "no_response", "Testing", 22 * Day, 20 * Day)
       EXCEPT !.created_at = @ - 10 * Day],
    TestLead("Test Lead - Never Called (2+ weeks old)", "prospect",
             "not_called", "Testing", 16 * Day, 16 * Day)>>

\* const testActivities = [...]
testActivities ==
  <<[user_id |-> TestUser.id, user_email |-> TestUser.email,
     action_details |-> ViewedLeadsPage, timestamp |-> now - 5 * Day],
    [user_id |-> TestUser.id, user_email |-> TestUser.email,
     action_details |-> UpdatedLeadStatus, timestamp |-> now - 3 * Day]>>

\* insert(rows): the rows with the ids the database gives them.
WithIds(rows) ==
  [k \in 1..Len(rows) |->
     [f \in DOMAIN rows[k] \cup {"id"} |->
        IF f = "id" THEN nextId + k - 1 ELSE rows[k][f]]]

TestUI ==
  [component |-> "TestNotifications", loading |-> FALSE, message |-> "",
   leadsCreated |-> 0, activitiesCreated |-> 0,
   before |-> [leads |-> <<>>, activity_logs |-> {}]]

createTestLeads ==
  /\ ui.component = "TestNotifications"
  /\ ~ui.loading
  /\ ui.leadsCreated < MaxCreates
  /\ leads' = leads \o WithIds(testLeads)
  /\ nextId' = nextId + Len(testLeads)
  /\ ui' = [ui EXCEPT !.message = "Test leads created successfully",
                      !.leadsCreated = @ + 1]
  /\ UNCHANGED <<user_roles, admin_notifications, activity_logs, now, fn, pc,
                 loc, response, salesmen, mr_loading, hist, faults>>

createTestActivityLogs ==
  /\ ui.component = "TestNotifications"
  /\ ~ui.loading
  /\ ui.activitiesCreated < MaxCreates
  /\ activity_logs' =
       activity_logs
         \cup {WithIds(testActivities)[k] : k \in 1..Len(testActivities)}
  /\ nextId' = nextId + Len(testActivities)
  /\ ui' = [ui EXCEPT !.message = "Test activity logs created",
                      !.activitiesCreated = @ + 1]
  /\ UNCHANGED <<leads, user_roles, admin_notifications, now, fn, pc, loc,
                 response, salesmen, mr_loading, hist, faults>>

\* cleanupTestData up to its first await: the test leads are deleted.
cleanupTestData ==
  /\ ui.component = "TestNotifications"
  /\ ~ui.loading
  /\ fn = "none"
  /\ leads' = SelectSeq(leads, LAMBDA l :
                 ~(l.user_id = TestUser.id /\ l.industry = "Testing"))
  /\ fn' = "cleanupTestData"
  /\ pc' = "activities"
  /\ ui' = [ui EXCEPT !.loading = TRUE,
                      !.message = "Cleaning up test data..."]
  /\ UNCHANGED <<user_roles, admin_notifications, activity_logs, now, nextId,
                 loc, response, salesmen, mr_loading, hist, faults>>

\* cleanupTestData from its second await: the test activities are deleted.
CleanupActivities ==
  /\ fn = "cleanupTestData"
  /\ pc = "activities"
  /\ activity_logs' =
       {a \in activity_logs :
          ~(a.user_id = TestUser.id /\ LikeTest(a.action_details))}
  /\ fn' = "none"
  /\ pc' = "idle"
  /\ ui' = [ui EXCEPT !.loading = FALSE,
                      !.message = "Test data cleaned up successfully"]
  /\ UNCHANGED <<leads, user_roles, admin_notifications, now, nextId, loc,
                 response, salesmen, mr_loading, hist, faults>>

\* Leads and activities the tables hold before any test data is created.
\* A lead of the user in another industry, and a 'Testing' lead of another
\* user.
OwnLeadTables ==
  LET own == [id |-> 1, user_id |-> "u1", name |-> "Acme",
              status |-> "prospect", call_status |-> "answered",
              industry |-> "Software", last_contact |-> NowInit - 3 * Day,
              created_at |-> NowInit - 10 * Day]
      others == [id |-> 2, user_id |-> "u2", name |-> "Lab",
                 status |-> "qualified", call_status |-> "not_called",
                 industry |-> "Testing", last_contact |-> NowInit - 5 * Day,
                 created_at |-> NowInit - 10 * Day]
  IN  {<<>>, <<own>>, <<others>>, <<own, others>>}

\* Activities of the user's own work; 'Viewed latest leads' holds "test".
OwnActivities ==
  LET latest == <<"V", "i", "e", "w", "e", "d", " ", "l", "a", "t", "e", "s",
                  "t", " ", "l", "e", "a", "d", "s">>
  IN  {[id |-> 3, user_id |-> "u1", user_email |-> "jukka@envaire.com",
        action_details |-> ViewedLeadsPage, timestamp |-> NowInit - Minute],
       [id |-> 4, user_id |-> "u1", user_email |-> "jukka@envaire.com",
        action_details |-> latest, timestamp |-> NowInit - Day],
       [id |-> 5, user_id |-> "u2", user_email |-> "tuomas@envaire.com",
        action_details |-> latest, timestamp |-> NowInit - Day]}

TestInit ==
  /\ leads \in OwnLeadTables
  /\ user_roles = RoleTable \cup {JukkaRole}
  /\ admin_notifications = <<>>
  /\ activity_logs \in SUBSET OwnActivities
  /\ now = NowInit
  /\ nextId = 6
  /\ fn = "none"
  /\ pc = "idle"
  /\ loc = NoLocals
  /\ response = NoResponse
  /\ salesmen = <<>>
  /\ mr_loading = TRUE
  /\ hist = <<>>
  /\ faults = 0
  /\ ui = [TestUI EXCEPT !.before =
             [leads |-> leads, activity_logs |-> activity_logs]]

TestNext ==
  \/ createTestLeads
  \/ createTestActivityLogs
  \/ cleanupTestData
  \/ CleanupActivities

SpecTest == TestInit /\ [][TestNext]_vars

----------------------------------------------------------------------------
\* CSVImport: parseCSV and handleImport of the logged-in user.  Company names
\* are sequences of characters.

\* A file holds at most this many lines after its header.
MaxRows == 3

\* String.prototype.toLowerCase on one character.
LowerChar(c) ==
  CASE c = "A" -> "a"
    [] c = "B" -> "b"
    [] c = "C" -> "c"
    [] c = "E" -> "e"
    [] c = "M" -> "m"
    [] OTHER -> c

toLowerCase(str) == [k \in 1..Len(str) |-> LowerChar(str[k])]

\* String.prototype.trim: the spaces at both ends go.
RECURSIVE trim(_)
trim(str) ==
  IF str # <<>> /\ Head(str) = " " THEN trim(Tail(str))
  ELSE IF str # <<>> /\ str[Len(str)] = " "
       THEN trim(SubSeq(str, 1, Len(str) - 1))
       ELSE str

\* parseCSV on the lines after the header; a line is its first column.
parseCSV(lines) ==
  LET filled == SelectSeq(lines, LAMBDA line : trim(line) # <<>>)
      parsed == [k \in 1..Len(filled) |-> [firm |-> trim(filled[k])]]
  IN  SelectSeq(parsed, LAMBDA row : row.firm # <<>>)

\* The lines of a file: 'Acme', 'ACME', ' acme ', 'Beta' and a blank line.
CsvLines ==
  {<<"A", "c", "m", "e">>, <<"A", "C", "M", "E">>,
   <<" ", "a", "c", "m", "e", " ">>, <<"B", "e", "t", "a">>, <<" ">>}

RECURSIVE SeqsUpTo(_, _)
SeqsUpTo(S, n) ==
  IF n = 0 THEN {<<>>}
  ELSE LET shorter == SeqsUpTo(S, n - 1)
       IN  shorter \cup {Append(q, x) : q \in shorter, x \in S}

CsvFiles == SeqsUpTo(CsvLines, MaxRows)

CsvLocals ==
  [rows |-> <<>>, k |-> 1, imported |-> 0, duplicates |-> 0, errors |-> <<>>,
   existingCompanies |-> {},
   \* history: what became of each row, in order
   log |-> <<>>]

NoResult == [imported |-> -1, duplicates |-> -1, errors |-> <<>>]

\* handleImport up to the first await: the file is read and parsed and the
\* user's companies are requested.
handleImport ==
  /\ ui.component = "CSVImport"
  /\ ~ui.loading
  /\ ui.result = NoResult
  /\ fn = "none"
  /\ fn' = "handleImport"
  /\ pc' = "existingLeads"
  /\ loc' = [CsvLocals EXCEPT !.rows = parseCSV(ui.file)]
  /\ ui' = [ui EXCEPT !.loading = TRUE]
  /\ UNCHANGED <<leads, user_roles, admin_notifications, activity_logs, now,
                 nextId, response, salesmen, mr_loading, hist, faults>>

\* const { data: existingLeads } = await ...; the error is not read.
CsvExistingLeads ==
  /\ fn = "handleImport"
  /\ pc = "existingLeads"
  /\ \E failed \in Outcomes :
       LET existingLeads ==
             IF failed THEN NoData
             ELSE Data(SelectSeq(leads, LAMBDA l : l.user_id = TestUser.id))
       IN  /\ loc' = [loc EXCEPT !.existingCompanies =
                        IF existingLeads = NoData THEN {}
                        ELSE {toLowerCase(existingLeads.rows[j].company) :
                                j \in 1..Len(existingLeads.rows)}]
           /\ faults' = faults + Count(failed)
  /\ pc' = "rows"
  /\ UNCHANGED <<leads, user_roles, admin_notifications, activity_logs, now,
                 nextId, fn, response, salesmen, mr_loading, hist, ui>>

\* One turn of for (const row of rows).
CsvRow ==
  /\ fn = "handleImport"
  /\ pc = "rows"
  /\ loc.k <= Len(loc.rows)
  /\ LET row == loc.rows[loc.k]
     IN  IF toLowerCase(row.firm) \in loc.existingCompanies
         THEN /\ loc' = [loc EXCEPT !.duplicates = @ + 1, !.k = @ + 1,
                                    !.log = Append(@, "duplicate")]
              /\ UNCHANGED <<leads, nextId, faults>>
         ELSE \E failed \in Outcomes :
                /\ faults' = faults + Count(failed)
                /\ IF failed
                   THEN /\ loc' = [loc EXCEPT !.errors = Append(@, row.firm),
                                              !.k = @ + 1,
                                              !.log = Append(@, "error")]
                        /\ UNCHANGED <<leads, nextId>>
                   ELSE /\ leads' = Append(leads,
                                      [id |-> nextId, user_id |-> TestUser.id,
                                       name |-> row.firm,
                                       company |-> row.firm])
                        /\ nextId' = nextId + 1
                        /\ loc' = [loc EXCEPT
                             !.imported = @ + 1, !.k = @ + 1,
                             !.existingCompanies =
                               @ \cup {toLowerCase(row.firm)},
                             !.log = Append(@, "imported")]
  /\ UNCHANGED <<user_roles, admin_notifications, activity_logs, now, fn, pc,
                 response, salesmen, mr_loading, hist, ui>>

\* setResult({ imported, duplicates, errors }) and setLoading(false).
CsvSetResult ==
  /\ fn = "handleImport"
  /\ pc = "rows"
  /\ loc.k > Len(loc.rows)
  /\ ui' = [ui EXCEPT !.loading = FALSE,
                      !.result = [imported |-> loc.imported,
                                  duplicates |-> loc.duplicates,
                                  errors |-> loc.errors]]
  /\ fn' = "none"
  /\ pc' = "idle"
  /\ UNCHANGED <<leads, user_roles, admin_notifications, activity_logs, now,
                 nextId, loc, response, salesmen, mr_loading, hist, faults>>

CsvLead(id, user_id, company) ==
  [id |-> id, user_id |-> user_id, name |-> company, company |-> company]

\* The leads before the import: companies 'Acme' and 'Beta'.
CsvLeadTables ==
  {<<>>,
   <<CsvLead(1, "u1", <<"A", "c", "m", "e">>)>>,
   <<CsvLead(1, "u2", <<"A", "c", "m", "e">>)>>,
   <<CsvLead(1, "u1", <<"B", "e", "t", "a">>),
     CsvLead(2, "u2", <<"A", "c", "m", "e">>)>>}

CsvInit ==
  /\ leads \in CsvLeadTables
  /\ user_roles = RoleTable \cup {JukkaRole}
  /\ admin_notifications = <<>>
  /\ activity_logs = {}
  /\ now = NowInit
  /\ nextId = 3
  /\ fn = "none"
  /\ pc = "idle"
  /\ loc = CsvLocals
  /\ response = NoResponse
  /\ salesmen = <<>>
  /\ mr_loading = TRUE
  /\ hist = <<>>
  /\ faults = 0
  /\ \E file \in CsvFiles :
       ui = [component |-> "CSVImport", file |-> file, loading |-> FALSE,
             result |-> NoResult,
             \* history: the leads before the import
             before |-> leads]

CsvNext ==
  \/ handleImport
  \/ CsvExistingLeads
  \/ CsvRow
  \/ CsvSetResult

SpecCsv == CsvInit /\ [][CsvNext]_vars

----------------------------------------------------------------------------
\* What a pass of either function yields when every request succeeds.

RECURSIVE AutoNotifications(_)
AutoNotifications(userIds) ==
  IF userIds = <<>> THEN <<>>
  ELSE LET userId == userIds[Len(userIds)]
       IN AutoNotifications(SubSeq(userIds, 1, Len(userIds) - 1))
          \o AutoPush(userId, UserEmailOf(userId, FALSE),
                      Data(AutoOverdueLeads(userId, now - 4 * Day)),
                      Data(AutoStaleLeads(userId, now - 14 * Day)))

RECURSIVE GenNotifications(_)
GenNotifications(userIds) ==
  IF userIds = <<>> THEN <<>>
  ELSE LET userId == userIds[Len(userIds)]
       IN GenNotifications(SubSeq(userIds, 1, Len(userIds) - 1))
          \o GenPush(userId, UserEmailOf(userId, FALSE),
                     Data(GenOverdueLeads(userId, now - 4 * Day)),
                     Data(GenStaleLeads(userId, now - 14 * Day)),
                     Data(GenUncalledLeads(userId, now - 14 * Day)))

\* The notifications function f pushes in a pass without failures, and the
\* table it leaves when started on `table`.
PassNotifications(f) ==
  IF f = "auto" THEN AutoNotifications(Unique(UserIdColumn(leads)))
  ELSE GenNotifications(Unique(UserIdColumn(leads)))

PassTable(f, table) ==
  (IF f = "auto" THEN AutoCleared(table, now) ELSE GenCleared(table, now))
  \o InsertedRows(PassNotifications(f))

----------------------------------------------------------------------------
\* AdminNotifications open in two admin sessions, and the Sidebar of an admin.
\* Each session runs fetchNotifications and generateNotifications on mount;
\* nothing orders the requests of one session with those of the other.

\* Each session regenerates at most this many times.
MaxRuns == 1

\* The Sidebar polls at most this many times.
MaxPolls == 2

Sessions == {"a", "b"}

\* A faulty variant of PanelCleared: only rows older than 24 hours go.
PanelClearedOld(table) == AutoCleared(table, now)

\* .delete().neq('id', '00000000-0000-0000-0000-000000000000'): the rows
\* left are those of the all-zero id, which is 0 here; no row has it.
PanelCleared(table) == SelectSeq(table, LAMBDA r : ~(r.id # 0))

\* The notifications generateNotifications pushes: its queries and pushes are
\* those of auto-generate-notifications, and the errors of the role and lead
\* queries are not read.
PanelNotifications == AutoNotifications(Unique(UserIdColumn(leads)))

\* .select('*', { count: 'exact', head: true }).eq('is_read', false)
UnreadCount(table) == Len(SelectSeq(table, LAMBDA r : ~r.is_read))

PanelUI ==
  [component |-> "AdminNotifications",
   pc |-> [s \in Sessions |-> "idle"],
   mounted |-> [s \in Sessions |-> FALSE],
   loading |-> [s \in Sessions |-> TRUE],
   fetched |-> [s \in Sessions |-> NoData],
   runs |-> [s \in Sessions |-> 0],
   pushed |-> [s \in Sessions |-> <<>>],
   notifications |-> [s \in Sessions |-> <<>>],
   adminNotificationCount |-> 0,
   \* history: the counts the Sidebar has read, in order
   seen |-> <<>>]

\* fetchNotifications of the mount effect, its response arriving as soon as
\* its select is served: setNotifications(data || []) and, finally,
\* setLoading(false).
fetchNotifications(s) ==
  /\ ui.component = "AdminNotifications"
  /\ ~ui.mounted[s]
  /\ ui' = [ui EXCEPT !.mounted[s] = TRUE,
                      !.notifications[s] = admin_notifications,
                      !.loading[s] = FALSE]
  /\ UNCHANGED <<leads, user_roles, admin_notifications, activity_logs, now,
                 nextId, fn, pc, loc, response, salesmen, mr_loading, hist,
                 faults>>

\* fetchNotifications of the mount effect when its response takes time: the
\* select is served, and the rows it read are on their way.
MountFetch(s) ==
  /\ ui.component = "AdminNotifications"
  /\ ~ui.mounted[s]
  /\ ui' = [ui EXCEPT !.mounted[s] = TRUE,
                      !.fetched[s] = Data(admin_notifications)]
  /\ UNCHANGED <<leads, user_roles, admin_notifications, activity_logs, now,
                 nextId, fn, pc, loc, response, salesmen, mr_loading, hist,
                 faults>>

\* The response of that select arrives, whatever has happened meanwhile:
\* setNotifications(data || []) and, finally, setLoading(false).
FetchReturns(s) ==
  /\ ui.component = "AdminNotifications"
  /\ ~ui.fetched[s].null
  /\ ui' = [ui EXCEPT !.fetched[s] = NoData,
                      !.notifications[s] = ui.fetched[s].rows,
                      !.loading[s] = FALSE]
  /\ UNCHANGED <<leads, user_roles, admin_notifications, activity_logs, now,
                 nextId, fn, pc, loc, response, salesmen, mr_loading, hist,
                 faults>>

\* generateNotifications up to its first await: all rows are deleted.
generateNotifications(s) ==
  /\ ui.component = "AdminNotifications"
  /\ ui.pc[s] = "idle"
  /\ ui.runs[s] < MaxRuns
  /\ admin_notifications' = PanelCleared(admin_notifications)
  /\ ui' = [ui EXCEPT !.pc[s] = "userIds", !.loading[s] = TRUE]
  /\ UNCHANGED <<leads, user_roles, activity_logs, now, nextId, fn, pc, loc,
                 response, salesmen, mr_loading, hist, faults>>

\* The reads of leads and user_roles; neither table changes meanwhile.
PanelCompute(s) ==
  /\ ui.component = "AdminNotifications"
  /\ ui.pc[s] = "userIds"
  /\ ui' = [ui EXCEPT !.pc[s] = "insert", !.pushed[s] = PanelNotifications]
  /\ UNCHANGED <<leads, user_roles, admin_notifications, activity_logs, now,
                 nextId, fn, pc, loc, response, salesmen, mr_loading, hist,
                 faults>>

\* if (notifications.length > 0) insert(...)
PanelInsert(s) ==
  /\ ui.component = "AdminNotifications"
  /\ ui.pc[s] = "insert"
  /\ admin_notifications' =
       admin_notifications \o InsertedRows(ui.pushed[s])
  /\ nextId' = nextId + Len(ui.pushed[s])
  /\ ui' = [ui EXCEPT !.pc[s] = "refresh"]
  /\ UNCHANGED <<leads, user_roles, activity_logs, now, fn, pc, loc, response,
                 salesmen, mr_loading, hist, faults>>

\* await fetchNotifications() at the end of generateNotifications, and the
\* finally of both: setLoading(false).
PanelRefresh(s) ==
  /\ ui.component = "AdminNotifications"
  /\ ui.pc[s] = "refresh"
  /\ ui' = [ui EXCEPT !.pc[s] = "idle", !.runs[s] = @ + 1,
                      !.notifications[s] = admin_notifications,
                      !.loading[s] = FALSE]
  /\ UNCHANGED <<leads, user_roles, admin_notifications, activity_logs, now,
                 nextId, fn, pc, loc, response, salesmen, mr_loading, hist,
                 faults>>

\* The Sidebar's poll of the unread admin notifications.
checkAdminNotifications ==
  /\ ui.component = "AdminNotifications"
  /\ Len(ui.seen) < MaxPolls
  /\ ui' = [ui EXCEPT
              !.adminNotificationCount = UnreadCount(admin_notifications),
              !.seen = Append(@, UnreadCount(admin_notifications))]
  /\ UNCHANGED <<leads, user_roles, admin_notifications, activity_logs, now,
                 nextId, fn, pc, loc, response, salesmen, mr_loading, hist,
                 faults>>

RaceInit ==
  /\ leads \in {<<first, second>> :
                  first \in PairedFirstLeads,
                  second \in {OrphanLead,
                              Lead(2, "u2", "qualified", "not_called",
                                   NowInit - 5 * Day, NowInit - 16 * Day)}}
  /\ user_roles = RoleTable
  /\ admin_notifications = <<>>
  /\ activity_logs = {}
  /\ now = NowInit
  /\ nextId = 1
  /\ fn = "none"
  /\ pc = "idle"
  /\ loc = NoLocals
  /\ response = NoResponse
  /\ salesmen = <<>>
  /\ mr_loading = TRUE
  /\ hist = <<>>
  /\ faults = 0
  /\ ui = PanelUI

RaceNext ==
  \/ \E s \in Sessions : fetchNotifications(s)
  \/ \E s \in Sessions : generateNotifications(s)
  \/ \E s \in Sessions : PanelCompute(s)
  \/ \E s \in Sessions : PanelInsert(s)
  \/ \E s \in Sessions : PanelRefresh(s)
  \/ checkAdminNotifications

SpecRace == RaceInit /\ [][RaceNext]_vars

\* One session alone, from its mount effect on: fetchNotifications() and
\* generateNotifications() are started together, and the response of the
\* first may arrive at any time.
MountNext ==
  \/ MountFetch("a")
  \/ FetchReturns("a")
  \/ generateNotifications("a")
  \/ PanelCompute("a")
  \/ PanelInsert("a")
  \/ PanelRefresh("a")

SpecMount == RaceInit /\ [][MountNext]_vars

----------------------------------------------------------------------------
\* The components of one client session of the logged-in user: a behaviour
\* has one of them mounted.  SalesmanNotifications comes first: its
\* generateNotifications runs on mount and after every successful
\* handleStatusUpdate, and nothing orders the requests of two calls.

\* handleStatusUpdate is called at most this many times.
MaxUpdates == 2

\* Submits of one form.
MaxSubmits == 2

\* A call in flight: the pass of the mount effect, or a handleStatusUpdate.
\* generateNotifications up to its first await: setLoading(true) and the two
\* dates.
SnCall(at, leadId, field, value) ==
  [pc |-> at, leadId |-> leadId, field |-> field, value |-> value,
   last_contact |-> now, fourDaysAgo |-> now - 4 * Day,
   twoWeeksAgo |-> now - 14 * Day, recentOverdueLeads |-> NoData]

\* The call at position p of the calls in flight has returned.
SnReturned(p) ==
  SubSeq(ui.calls, 1, p - 1) \o SubSeq(ui.calls, p + 1, Len(ui.calls))

\* A select of a listed lead is changed: handleStatusUpdate up to its await.
handleStatusUpdate ==
  /\ ui.component = "SalesmanNotifications"
  /\ ~ui.loading
  /\ ui.updates < MaxUpdates
  /\ \E list \in {ui.notifications.overdue_calls,
                  ui.notifications.stale_leads} :
       \E k \in 1..Len(list) :
         \E change \in {<<"status", "closed-won">>, <<"status", "prospect">>,
                        <<"call_status", "answered">>,
                        <<"call_status", "voicemail">>} :
           ui' = [ui EXCEPT
                    !.updates = @ + 1,
                    !.calls = Append(@, SnCall("update", list[k].id,
                                               change[1], change[2]))]
  /\ UNCHANGED <<leads, user_roles, admin_notifications, activity_logs, now,
                 nextId, fn, pc, loc, response, salesmen, mr_loading, hist,
                 faults>>

\* A faulty variant of SnUpdate: last_contact is never written.
SnUpdateKeepsContact ==
  /\ ui.component = "SalesmanNotifications"
  /\ \E p \in 1..Len(ui.calls) : \E failed \in Outcomes :
       LET call == ui.calls[p]
       IN  /\ call.pc = "update"
           /\ faults' = faults + Count(failed)
           /\ IF failed
              THEN /\ ui' = [ui EXCEPT !.calls = SnReturned(p)]
                   /\ UNCHANGED leads
              ELSE /\ leads' =
                        [k \in 1..Len(leads) |->
                           IF leads[k].id # call.leadId THEN leads[k]
                           ELSE IF call.field = "status"
                           THEN [leads[k] EXCEPT !.status = call.value]
                           ELSE [leads[k] EXCEPT !.call_status = call.value]]
                   /\ ui' = [ui EXCEPT
                               !.loading = TRUE,
                               !.calls[p] = SnCall("recent", call.leadId,
                                                   call.field, call.value)]
  /\ UNCHANGED <<user_roles, admin_notifications, activity_logs, now, nextId,
                 fn, pc, loc, response, salesmen, mr_loading, hist>>

\* The update returns; without an error generateNotifications starts.
SnUpdate ==
  /\ ui.component = "SalesmanNotifications"
  /\ \E p \in 1..Len(ui.calls) : \E failed \in Outcomes :
       LET call == ui.calls[p]
       IN  /\ call.pc = "update"
           /\ faults' = faults + Count(failed)
           /\ IF failed
              THEN /\ ui' = [ui EXCEPT !.calls = SnReturned(p)]
                   /\ UNCHANGED leads
              ELSE /\ leads' =
                        [k \in 1..Len(leads) |->
                           IF leads[k].id # call.leadId THEN leads[k]
                           ELSE IF call.field = "status"
                           THEN [leads[k] EXCEPT !.status = call.value]
                           ELSE IF call.value = "answered"
                           THEN [leads[k] EXCEPT
                                   !.call_status = call.value,
                                   !.last_contact = call.last_contact]
                           ELSE [leads[k] EXCEPT !.call_status = call.value]]
                   /\ ui' = [ui EXCEPT
                               !.loading = TRUE,
                               !.calls[p] = SnCall("recent", call.leadId,
                                                   call.field, call.value)]
  /\ UNCHANGED <<user_roles, admin_notifications, activity_logs, now, nextId,
                 fn, pc, loc, response, salesmen, mr_loading, hist>>

\* The query of the leads not contacted in 4+ days returns; its filter is
\* that of AutoOverdueLeads, and every reader takes its rows as a set.
SnRecentOverdue ==
  /\ ui.component = "SalesmanNotifications"
  /\ \E p \in 1..Len(ui.calls) : \E failed \in Outcomes :
       /\ ui.calls[p].pc = "recent"
       /\ faults' = faults + Count(failed)
       /\ ui' = [ui EXCEPT
                   !.calls[p].pc = "critical",
                   !.calls[p].recentOverdueLeads =
                     IF failed THEN NoData
                     ELSE Data(AutoOverdueLeads(TestUser.id,
                                                ui.calls[p].fourDaysAgo))]
  /\ UNCHANGED <<leads, user_roles, admin_notifications, activity_logs, now,
                 nextId, fn, pc, loc, response, salesmen, mr_loading, hist>>

\* The query of the leads not contacted in 2+ weeks returns, and the pass
\* runs to its end: after an error of either query nothing is set.
SnCriticalOverdue ==
  /\ ui.component = "SalesmanNotifications"
  /\ \E p \in 1..Len(ui.calls) : \E failed \in Outcomes :
       LET call == ui.calls[p]
       IN  /\ call.pc = "critical"
           /\ faults' = faults + Count(failed)
           /\ ui' = [ui EXCEPT
                       !.loading = FALSE,
                       !.calls = SnReturned(p),
                       !.notifications =
                         IF call.recentOverdueLeads.null \/ failed THEN @
                         ELSE [overdue_calls |-> call.recentOverdueLeads.rows,
                               stale_leads |->
                                 AutoStaleLeads(TestUser.id,
                                                call.twoWeeksAgo)]]
  /\ UNCHANGED <<leads, user_roles, admin_notifications, activity_logs, now,
                 nextId, fn, pc, loc, response, salesmen, mr_loading, hist>>

\* A faulty variant of checkNotifications: an error resets the badge.
checkNotificationsResets ==
  /\ ui.component = "Sidebar"
  /\ \E failed \in Outcomes :
       /\ faults' = faults + Count(failed)
       /\ ui' = [ui EXCEPT
                   !.notificationCount =
                     IF failed THEN 0
                     ELSE Len(AutoOverdueLeads(TestUser.id, now - 4 * Day)),
                   !.lastPoll = [kind |-> "leads", failed |-> failed,
                                 previous |-> ui.notificationCount]]
  /\ UNCHANGED <<leads, user_roles, admin_notifications, activity_logs, now,
                 nextId, fn, pc, loc, response, salesmen, mr_loading, hist>>

\* The Sidebar.  Its poll of the overdue leads of the user, every 30 seconds
\* and on every change of leads: an error leaves the badge as it is.
checkNotifications ==
  /\ ui.component = "Sidebar"
  /\ \E failed \in Outcomes :
       LET overdueLeads ==
             IF failed THEN NoData
             ELSE Data(AutoOverdueLeads(TestUser.id, now - 4 * Day))
       IN  /\ faults' = faults + Count(failed)
           /\ ui' = [ui EXCEPT
                       !.notificationCount =
                         IF failed THEN @ ELSE Len(overdueLeads.rows),
                       !.lastPoll = [kind |-> "leads", failed |-> failed,
                                     previous |-> ui.notificationCount]]
  /\ UNCHANGED <<leads, user_roles, admin_notifications, activity_logs, now,
                 nextId, fn, pc, loc, response, salesmen, mr_loading, hist>>

\* Its poll of the unread admin notifications, with the error path: an
\* error resets the badge.
SidebarCheckAdminNotifications ==
  /\ ui.component = "Sidebar"
  /\ ui.isAdmin
  /\ \E failed \in Outcomes :
       /\ faults' = faults + Count(failed)
       /\ ui' = [ui EXCEPT
                   !.adminNotificationCount =
                     IF failed THEN 0 ELSE UnreadCount(admin_notifications),
                   !.lastPoll = [kind |-> "admin", failed |-> failed,
                                 previous |-> ui.adminNotificationCount]]
  /\ UNCHANGED <<leads, user_roles, admin_notifications, activity_logs, now,
                 nextId, fn, pc, loc, response, salesmen, mr_loading, hist>>

\* useSupabaseData.  The five lists of its state and the five fetches of
\* fetchData are numbered in the order of the source: leads, projects, demos,
\* activities, deals.  fetchData up to its first await:
fetchData ==
  /\ ui.component = "useSupabaseData"
  /\ ui.fetching = 0
  /\ ui' = [ui EXCEPT !.loading = TRUE, !.fetching = 1,
                      !.data = [k \in 1..5 |-> NoData],
                      !.queried = [k \in 1..5 |-> 0]]
  /\ UNCHANGED <<leads, user_roles, admin_notifications, activity_logs, now,
                 nextId, fn, pc, loc, response, salesmen, mr_loading, hist,
                 faults>>

\* A faulty variant of FetchTable: each list is set as soon as it is fetched.
FetchTableSetsEach ==
  /\ ui.component = "useSupabaseData"
  /\ ui.fetching > 0
  /\ \E failed \in Outcomes :
       LET k == ui.fetching
           rows == IF k = 1
                   THEN SelectSeq(leads, LAMBDA l : l.user_id = TestUser.id)
                   ELSE <<[id |-> k]>>
       IN  /\ faults' = faults + Count(failed)
           /\ ui' = IF failed
                    THEN [ui EXCEPT !.loading = FALSE, !.fetching = 0,
                                    !.queried[k] = @ + 1]
                    ELSE [ui EXCEPT !.loading = (k < 5),
                                    !.fetching = IF k < 5 THEN k + 1 ELSE 0,
                                    !.queried[k] = @ + 1,
                                    !.state[k] = rows]
  /\ UNCHANGED <<leads, user_roles, admin_notifications, activity_logs, now,
                 nextId, fn, pc, loc, response, salesmen, mr_loading, hist>>

\* The fetch of table ui.fetching returns, and fetchData runs to its next
\* await or to its end: an error is thrown to the catch; after the fifth
\* fetch the rows are transformed and the five lists are set.
FetchTable ==
  /\ ui.component = "useSupabaseData"
  /\ ui.fetching > 0
  /\ \E failed \in Outcomes :
       LET k == ui.fetching
           rows == IF k = 1
                   THEN SelectSeq(leads, LAMBDA l : l.user_id = TestUser.id)
                   ELSE <<[id |-> k]>>
           data == [ui.data EXCEPT ![k] = Data(rows)]
           transformed(j) ==
             IF j = 1
             THEN [i \in 1..Len(data[1].rows) |->
                     [id |-> data[1].rows[i].id,
                      status |-> data[1].rows[i].status,
                      call_status |-> data[1].rows[i].call_status]]
             ELSE data[j].rows
       IN  /\ faults' = faults + Count(failed)
           /\ ui' = IF failed
                    THEN [ui EXCEPT !.loading = FALSE, !.fetching = 0,
                                    !.queried[k] = @ + 1]
                    ELSE IF k < 5
                    THEN [ui EXCEPT !.fetching = k + 1, !.data = data,
                                    !.queried[k] = @ + 1]
                    ELSE [ui EXCEPT !.loading = FALSE, !.fetching = 0,
                                    !.data = data, !.queried[k] = @ + 1,
                                    !.state = [j \in 1..5 |-> transformed(j)]]
  /\ UNCHANGED <<leads, user_roles, admin_notifications, activity_logs, now,
                 nextId, fn, pc, loc, response, salesmen, mr_loading, hist>>

\* LeadForm, ProjectForm, DemoForm and DealForm.  ui.record is the id of the
\* record edited (0: none, the form creates one).  LeadForm writes the table
\* leads; ui.rows is the table of the other three forms.  handleSubmit up to
\* its await: without a user the first three return at once, and DealForm
\* reads user.id of null inside its try, so it runs its catch and finally.
handleSubmit ==
  /\ ui.component = "Form"
  /\ ui.open
  /\ ~ui.loading
  /\ ui.submits < MaxSubmits
  /\ ui' = IF ui.user = "none"
           THEN [ui EXCEPT !.submits = @ + 1, !.writes = 0,
                           !.setLoading = (ui.form = "DealForm")]
           ELSE [ui EXCEPT !.submits = @ + 1, !.writes = 1,
                           !.setLoading = TRUE, !.loading = TRUE,
                           !.kind = IF ui.record # 0 THEN "update"
                                                    ELSE "insert"]
  /\ UNCHANGED <<leads, user_roles, admin_notifications, activity_logs, now,
                 nextId, fn, pc, loc, response, salesmen, mr_loading, hist,
                 faults>>

\* A faulty variant of FormWrite: the callbacks are called after the write
\* whether or not it returned an error.
FormWriteAlwaysCloses ==
  /\ ui.component = "Form"
  /\ ui.loading
  /\ \E failed \in Outcomes :
       /\ faults' = faults + Count(failed)
       /\ ui' = [ui EXCEPT !.loading = FALSE, !.open = FALSE,
                           !.called = <<"onSuccess", "onClose">>,
                           !.rows = IF failed \/ ui.form = "LeadForm" THEN @
                                    ELSE IF ui.kind = "insert"
                                    THEN Append(@, [id |-> Len(@) + 1,
                                                    user_id |-> ui.user,
                                                    title |-> "new"])
                                    ELSE [i \in 1..Len(@) |->
                                            IF @[i].id = ui.record
                                            THEN [@[i] EXCEPT
                                                    !.user_id = ui.user,
                                                    !.title = "new"]
                                            ELSE @[i]]]
       /\ leads' = IF failed \/ ui.form # "LeadForm" THEN leads
                   ELSE IF ui.kind = "insert"
                   THEN Append(leads, Lead(nextId, ui.user, "prospect",
                                           "not_called", NoTime, now))
                   ELSE [i \in 1..Len(leads) |->
                           IF leads[i].id = ui.record
                           THEN [leads[i] EXCEPT !.user_id = ui.user,
                                                 !.status = "qualified"]
                           ELSE leads[i]]
       /\ nextId' = IF leads' # leads /\ ui.kind = "insert"
                    THEN nextId + 1 ELSE nextId
  /\ UNCHANGED <<user_roles, admin_notifications, activity_logs, now, fn, pc,
                 loc, response, salesmen, mr_loading, hist>>

\* The write returns and handleSubmit runs to its end: an error is thrown to
\* the catch; otherwise onSuccess() and onClose(); finally setLoading(false).
\* The update writes the form's fields and user_id to the record edited; the
\* insert adds a record (a new lead has no last_contact).
FormWrite ==
  /\ ui.component = "Form"
  /\ ui.loading
  /\ \E failed \in Outcomes :
       /\ faults' = faults + Count(failed)
       /\ ui' = IF failed
                THEN [ui EXCEPT !.loading = FALSE]
                ELSE [ui EXCEPT
                        !.loading = FALSE, !.open = FALSE,
                        !.called = <<"onSuccess", "onClose">>,
                        !.rows = IF ui.form = "LeadForm" THEN @
                                 ELSE IF ui.kind = "insert"
                                 THEN Append(@, [id |-> Len(@) + 1,
                                                 user_id |-> ui.user,
                                                 title |-> "new"])
                                 ELSE [i \in 1..Len(@) |->
                                         IF @[i].id = ui.record
                                         THEN [@[i] EXCEPT
                                                 !.user_id = ui.user,
                                                 !.title = "new"]
                                         ELSE @[i]]]
       /\ leads' = IF failed \/ ui.form # "LeadForm" THEN leads
                   ELSE IF ui.kind = "insert"
                   THEN Append(leads, Lead(nextId, ui.user, "prospect",
                                           "not_called", NoTime, now))
                   ELSE [i \in 1..Len(leads) |->
                           IF leads[i].id = ui.record
                           THEN [leads[i] EXCEPT !.user_id = ui.user,
                                                 !.status = "qualified"]
                           ELSE leads[i]]
       /\ nextId' = IF leads' # leads /\ ui.kind = "insert"
                    THEN nextId + 1 ELSE nextId
  /\ UNCHANGED <<user_roles, admin_notifications, activity_logs, now, fn, pc,
                 loc, response, salesmen, mr_loading, hist>>

ClientInit ==
  \* a stale lead of the user, and a second lead that is overdue, closed,
  \* without last_contact, or of another user
  /\ leads \in
       {<<Lead(1, "u1", "prospect", "not_called", NowInit - 15 * Day,
               NowInit - 16 * Day), second>> :
          second \in {Lead(2, "u1", "qualified", "answered",
                           NowInit - 5 * Day, NowInit - 16 * Day),
                      Lead(2, "u1", "closed-won", "answered",
                           NowInit - 15 * Day, NowInit - 16 * Day),
                      Lead(2, "u1", "prospect", "not_called", NoTime,
                           NowInit - 16 * Day),
                      Lead(2, "u2", "proposal", "voicemail",
                           NowInit - 15 * Day, NowInit - 16 * Day)}}
  /\ user_roles = RoleTable \cup {JukkaRole}
  /\ admin_notifications = NotificationTable
  /\ activity_logs = {}
  /\ now = NowInit
  /\ nextId = Len(NotificationTable) + 1
  /\ fn = "none"
  /\ pc = "idle"
  /\ loc = NoLocals
  /\ response = NoResponse
  /\ salesmen = <<>>
  /\ mr_loading = TRUE
  /\ hist = <<>>
  /\ faults = 0
  \* the state of the component once its mount effect has run
  /\ ui \in
       {[component |-> "SalesmanNotifications", loading |-> TRUE,
         notifications |-> [overdue_calls |-> <<>>, stale_leads |-> <<>>],
         updates |-> 0,
         calls |-> <<SnCall("recent", 0, "none", "none")>>],
        [component |-> "Sidebar", isAdmin |-> TRUE, notificationCount |-> 0,
         adminNotificationCount |-> 0,
         \* history: the last poll and the badge before it
         lastPoll |-> [kind |-> "none", failed |-> FALSE, previous |-> 0]],
        [component |-> "useSupabaseData", loading |-> TRUE, fetching |-> 1,
         state |-> [k \in 1..5 |-> <<>>],
         data |-> [k \in 1..5 |-> NoData],
         \* history: how often the call in progress has queried each table
         queried |-> [k \in 1..5 |-> 0]]}
          \cup
       {[component |-> "Form", form |-> f, user |-> u, record |-> r,
         loading |-> FALSE, open |-> TRUE, called |-> <<>>, kind |-> "none",
         rows |-> <<[id |-> 1, user_id |-> "u1", title |-> "old"]>>,
         \* history: submits so far; writes attempted and loading set by the
         \* last one
         submits |-> 0, writes |-> 0, setLoading |-> FALSE] :
          f \in {"LeadForm", "ProjectForm", "DemoForm", "DealForm"},
          u \in {TestUser.id, "none"}, r \in {0, 1}}

ClientNext ==
  \/ handleStatusUpdate
  \/ SnUpdate
  \/ SnRecentOverdue
  \/ SnCriticalOverdue
  \/ checkNotifications
  \/ SidebarCheckAdminNotifications
  \/ fetchData
  \/ FetchTable
  \/ handleSubmit
  \/ FormWrite

SpecClient == ClientInit /\ [][ClientNext]_vars

----------------------------------------------------------------------------
\* Vocabulary of the properties.

Closed(l) == l.status \in {"closed-won", "closed-lost"}

InRows(l, data) == \E k \in 1..Len(data.rows) : data.rows[k] = l

\* Elapsed time since last_contact, for the pass in progress.
Elapsed(l) == loc.now - l.last_contact

\* The lead is one of the user the pass is at.
OfCurrentUser(l) == loc.userId # NULL /\ l.user_id = loc.userId

\* A notification without what the database adds to it.
Projection(n) ==
  [type |-> n.type, salesman_id |-> n.salesman_id, bucket |-> n.bucket,
   priority |-> n.priority, count |-> n.count]

Projections(rows) == [k \in 1..Len(rows) |-> Projection(rows[k])]

Occurrences(seq, x) == Cardinality({k \in 1..Len(seq) : seq[k] = x})

SameBag(a, b) ==
  /\ Len(a) = Len(b)
  /\ \A k \in 1..Len(a) : Occurrences(a, a[k]) = Occurrences(b, a[k])

\* A completed pass in which no request failed.
Clean(h) ==
  /\ h.response.status = 200
  /\ h.failed = {}
  /\ ~h.deleteFailed
  /\ ~h.insertFailed

\* The buckets a function queries.
Buckets(f) ==
  IF f = "auto" THEN {"overdue", "stale"}
  ELSE {"overdue", "stale", "uncalled"}

\* The rows of bucket b of user u: the result of the function's query.
BucketRows(f, u, b) ==
  IF f = "auto"
  THEN IF b = "overdue" THEN AutoOverdueLeads(u, now - 4 * Day)
       ELSE AutoStaleLeads(u, now - 14 * Day)
  ELSE IF b = "overdue" THEN GenOverdueLeads(u, now - 4 * Day)
       ELSE IF b = "stale" THEN GenStaleLeads(u, now - 14 * Day)
       ELSE GenUncalledLeads(u, now - 14 * Day)

\* The users who own a lead.
Owners == {leads[k].user_id : k \in 1..Len(leads)} \ {NULL}

Produced(h, u, b) ==
  SelectSeq(h.notifications, LAMBDA n : n.salesman_id = u /\ n.bucket = b)

----------------------------------------------------------------------------
\* Properties.

\* C1: a lead whose status is closed-won or closed-lost is in none of the
\* overdue, stale and uncalled buckets of a generator, whatever its
\* last_contact, created_at and call_status are.
C1_ClosedInNoBucket ==
  \A k \in 1..Len(leads) :
    Closed(leads[k]) =>
      /\ ~InRows(leads[k], loc.overdueLeads)
      /\ ~InRows(leads[k], loc.staleLeads)
      /\ ~InRows(leads[k], loc.uncalledLeads)

\* C2: a lead that is not closed and was last contacted at least 4 days
\* (4 days exactly included) and less than 14 days ago is in the overdue
\* bucket and in no other bucket (not stale, not uncalled).
C2_OverdueOnly ==
  \A k \in 1..Len(leads) :
    LET l == leads[k]
    IN (/\ OfCurrentUser(l)
        /\ ~Closed(l)
        /\ Elapsed(l) >= 4 * Day
        /\ Elapsed(l) < 14 * Day)
       => /\ ~loc.overdueLeads.null => InRows(l, loc.overdueLeads)
          /\ ~InRows(l, loc.staleLeads)
          /\ ~InRows(l, loc.uncalledLeads)

\* C3: a lead that is not closed and was last contacted at least 14 days
\* ago (14 days exactly included) is in the stale bucket, never in the
\* overdue bucket only.
C3_StaleFrom14Days ==
  \A k \in 1..Len(leads) :
    LET l == leads[k]
    IN (/\ OfCurrentUser(l)
        /\ ~Closed(l)
        /\ Elapsed(l) >= 14 * Day
        /\ ~loc.staleLeads.null)
       => InRows(l, loc.staleLeads)

\* C4: the overdue notification of a salesman with n overdue leads has
\* priority high when n > 20, medium when 10 < n <= 20, low when n <= 10.
C4_OverduePriority ==
  \A k \in 1..Len(loc.notifications) :
    LET n == loc.notifications[k]
    IN n.bucket = "overdue" =>
         n.priority = IF n.count > 20 THEN "high"
                      ELSE IF n.count > 10 THEN "medium" ELSE "low"

\* C5: two passes of the same function in succession, with the leads
\* unchanged and no request failing, leave admin_notifications with the
\* same notifications as the first pass did, none of them twice.
C5_Idempotent ==
  \A k \in 1..(Len(hist) - 1) :
    (/\ hist[k].fn = hist[k + 1].fn
     /\ Clean(hist[k])
     /\ Clean(hist[k + 1]))
    => /\ SameBag(Projections(hist[k].after),
                  Projections(hist[k + 1].after))
       /\ \A i, j \in 1..Len(hist[k + 1].after) :
            Projection(hist[k + 1].after[i])
              = Projection(hist[k + 1].after[j]) => i = j

\* C6: when the insert into admin_notifications fails, the pass responds
\* with status 500 and {error: message}, never with {success: true}.
C6_InsertFailureSurfaced ==
  \A k \in 1..Len(hist) :
    hist[k].insertFailed =>
      /\ hist[k].response.status = 500
      /\ hist[k].response.error # NULL
      /\ ~hist[k].response.success

\* C7: a failed user_roles or leads request for one salesman does not abort
\* the pass: unless the user-id request or the insert failed, the pass ends
\* with a success response, and for every salesman none of whose requests
\* failed it has pushed exactly the notifications it pushes when no request
\* fails.
C7_FetchFailureIsolated ==
  \A k \in 1..Len(hist) :
    LET h == hist[k]
    IN (h.response.error # "userIdsError" /\ ~h.insertFailed)
       => /\ h.response.status = 200
          /\ h.response.success
          /\ \A B \in Owners :
               (\A r \in h.failed : r[1] # B)
               => SelectSeq(h.notifications, LAMBDA n : n.salesman_id = B)
                    = SelectSeq(PassNotifications(h.fn),
                                LAMBDA n : n.salesman_id = B)

\* C7 witness: a request of u1 failed, u2 has its notifications, and the
\* pass succeeded.
C7_Witness ==
  \E k \in 1..Len(hist) :
    /\ hist[k].fn = "gen"
    /\ <<"u1", "overdue">> \in hist[k].failed
    /\ Len(Produced(hist[k], "u2", "overdue")) = 1
    /\ hist[k].response.status = 200

Skipped(h, u, b) ==
  IF h.fn = "auto" THEN <<u, b>> \in h.failed
  ELSE \E r \in {"overdue", "stale", "uncalled"} : <<u, r>> \in h.failed

C9_FunctionsEquivalent ==
  \A k \in 1..Len(hist) :
    LET h == hist[k]
        other == IF h.fn = "auto" THEN "gen" ELSE "auto"
    IN Clean(h)
       => /\ SameBag(Projections(h.after),
                     Projections(PassTable(other, h.before)))
          /\ h.response.notifications_created
               = Len(PassNotifications(other))

\* A pass without failures leaves what PassTable says and reports what
\* PassNotifications says.
CleanPassResult ==
  \A k \in 1..Len(hist) :
    Clean(hist[k])
    => /\ SameBag(Projections(hist[k].after),
                  Projections(PassTable(hist[k].fn, hist[k].before)))
       /\ hist[k].notifications = PassNotifications(hist[k].fn)

\* The rows the tables hold for an email.
HasRole(email) == \E r \in user_roles : r.email = email

ActivitiesAt(email) == {a \in activity_logs : a.user_email = email}

\* The time since the last activity of an email that has activity.
SinceLastActivity(email) ==
  now - (CHOOSE t \in {a.timestamp : a \in ActivitiesAt(email)} :
           \A a \in ActivitiesAt(email) : a.timestamp <= t)

AlertFor(email) ==
  \E k \in 1..Len(admin_notifications) :
    /\ admin_notifications[k].type = "inactive_salesman"
    /\ admin_notifications[k].salesman_email = email

\* The salesman is afk in `salesmen`.
ClassifiedAfk(email) ==
  \E k \in 1..Len(salesmen) :
    salesmen[k].email = email /\ salesmen[k].online_status = "afk"

\* The salesman stays afk for two more periods of the AFK check at least:
\* no activity of theirs follows, and the last one is recent enough.
RemainsAfk(email) ==
  /\ ClassifiedAfk(email)
  /\ SinceLastActivity(email) + 2 * AfkCheckPeriod <= IDLE_THRESHOLD

\* C11: while MonitoringRoom is open, a salesman who is classified afk and
\* remains afk eventually has an inactive_salesman row in
\* admin_notifications.
C11_AfkAlertEventually ==
  [](RemainsAfk("jukka@envaire.com") => <>AlertFor("jukka@envaire.com"))

\* The salesman is logged in and their last activity is days old.
DaysOldActivity(email) ==
  /\ HasRole(email)
  /\ ActivitiesAt(email) # {}
  /\ SinceLastActivity(email) >= Day

\* C12: a logged-in salesman whose most recent activity is days old
\* eventually has an inactive_salesman row in admin_notifications.
C12_OldActivityReported ==
  [](DaysOldActivity("jukka@envaire.com") => <>AlertFor("jukka@envaire.com"))

\* C13: after a completed pass of either function, admin_notifications holds
\* no row created more than 24 hours before the pass, and every row created
\* in the 24 hours before the pass is still there.
C13_Retention ==
  \A k \in 1..Len(hist) :
    LET h == hist[k]
    IN h.response.status = 200
       => /\ \A i \in 1..Len(h.after) : ~Lt(h.after[i].created_at, now - Day)
          /\ \A i \in 1..Len(h.before) :
               Gte(h.before[i].created_at, now - Day)
               => \E j \in 1..Len(h.after) : h.after[j] = h.before[i]

\* The leads of u that were never called and were created at least 14 days
\* ago.
NeverCalled(u) ==
  {i \in 1..Len(leads) :
     /\ leads[i].user_id = u
     /\ leads[i].call_status = "not_called"
     /\ now - leads[i].created_at >= 14 * Day}

\* C14: a pass emits for a salesman with n >= 1 leads that are not_called
\* and created at least 14 days ago one no_calls notification, of priority
\* high when n > 5, medium when 2 < n <= 5, low otherwise, and none when
\* n = 0; no other lead is counted in it.
C14_Uncalled ==
  \A k \in 1..Len(hist) :
    Clean(hist[k])
    => \A u \in Owners :
         LET n == Cardinality(NeverCalled(u))
             P == Produced(hist[k], u, "uncalled")
         IN IF n >= 1
            THEN /\ Len(P) = 1
                 /\ P[1].type = "no_calls"
                 /\ P[1].count = n
                 /\ P[1].priority = IF n > 5 THEN "high"
                                    ELSE IF n > 2 THEN "medium" ELSE "low"
            ELSE Len(P) = 0

\* C15: the notification of a bucket of n leads carries exactly min(n, 10)
\* sample leads, all of them leads of that bucket of that salesman.
C15_SampleOfTen ==
  \A k \in 1..Len(hist) :
    \A i \in 1..Len(hist[k].notifications) :
      LET n == hist[k].notifications[i]
          bucket == BucketRows(hist[k].fn, n.salesman_id, n.bucket)
      IN /\ Len(n.leads) = Min(Len(bucket), 10)
         /\ \A j \in 1..Len(n.leads) :
              \E b \in 1..Len(bucket) : bucket[b].id = n.leads[j]

\* The last request was an OPTIONS request: it was answered 200 and not
\* with the JSON of a pass.
OptionsAnswered == response.status = 200 /\ response.body # "json"

\* C16 as stated: an OPTIONS request is answered with status 200 and an
\* empty body.
C16_OptionsEmptyBody == OptionsAnswered => response.body = ""

\* C16 amended: an OPTIONS request is answered with status 200 and the body
\* 'ok', and the step that answers it changes no table and starts no pass.
C16_OptionsOnly ==
  [][response' = OptionsResponse
     => /\ response'.status = 200
        /\ response'.body = "ok"
        /\ fn' = "none"
        /\ UNCHANGED <<leads, user_roles, admin_notifications,
                       activity_logs, nextId, fn, pc, loc, hist>>]_vars

\* C16 witness: an OPTIONS request was answered after a pass had filled
\* admin_notifications.
C16_Witness ==
  /\ response = OptionsResponse
  /\ Len(hist) = 1
  /\ hist[1].after = admin_notifications
  /\ Len(hist[1].notifications) > 0

\* C17: after createTestLeads and createTestActivityLogs, cleanupTestData
\* leaves in leads and activity_logs exactly the rows they held before the
\* test data was created.
C17_CleanupRoundTrip ==
  (/\ ui.component = "TestNotifications"
   /\ ui.message = "Test data cleaned up successfully"
   /\ ui.leadsCreated >= 1
   /\ ui.activitiesCreated >= 1)
  => /\ leads = ui.before.leads
     /\ activity_logs = ui.before.activity_logs

\* The companies, in lower case, of the leads the user had before the import.
HadCompanies ==
  {toLowerCase(ui.before[j].company) :
     j \in {j \in 1..Len(ui.before) : ui.before[j].user_id = TestUser.id}}

\* Row k names a company the user had, or one inserted earlier in the import.
DuplicateRow(k) ==
  \/ toLowerCase(loc.rows[k].firm) \in HadCompanies
  \/ \E j \in 1..(k - 1) :
       /\ loc.log[j] = "imported"
       /\ toLowerCase(loc.rows[j].firm) = toLowerCase(loc.rows[k].firm)

\* C18: a finished handleImport has inserted no row whose company equals,
\* ignoring case, a company the user had or one inserted earlier in the
\* import; every such row is counted in duplicates; and every parsed row is
\* counted once as imported, duplicate or error.
C18_DuplicatesSkipped ==
  (ui.component = "CSVImport" /\ ui.result # NoResult)
  => /\ \A k \in 1..Len(loc.rows) :
          DuplicateRow(k) => loc.log[k] = "duplicate"
     /\ ui.result.duplicates =
          Cardinality({k \in 1..Len(loc.rows) : DuplicateRow(k)})
     /\ ui.result.imported + ui.result.duplicates + Len(ui.result.errors)
          = Len(loc.rows)
     /\ Len(leads) = Len(ui.before) + ui.result.imported

\* Every session has finished a regeneration and none is in progress.
AllRegenerated ==
  /\ ui.component = "AdminNotifications"
  /\ \A s \in Sessions : ui.runs[s] >= 1 /\ ui.pc[s] = "idle"

\* C19: once the regenerations of both sessions have finished over unchanged
\* lead data, admin_notifications holds exactly the notifications of a single
\* pass, none twice and none missing.
C19_ConcurrentRegeneration ==
  AllRegenerated =>
    SameBag(Projections(admin_notifications), Projections(PanelNotifications))

\* C20: generateNotifications leaves admin_notifications empty from its delete
\* until an insert, whatever a pass yields, and a reader (the Sidebar's poll,
\* fetchNotifications) reads the table as it is at that moment.
C20_ReaderSeesIntermediateState ==
  [][/\ \A s \in Sessions :
          (ui.pc[s] = "idle" /\ ui'.pc[s] = "userIds")
            => admin_notifications' = <<>>
     /\ ui'.seen # ui.seen
          => ui'.seen = Append(ui.seen, UnreadCount(admin_notifications))
     /\ \A s \in Sessions :
          ui'.notifications[s] # ui.notifications[s]
            => ui'.notifications[s] = admin_notifications]_vars

\* The Sidebar read a non-empty table, then read none of its notifications
\* while a pass was between its delete and its insert, and the finished passes
\* left the table non-empty.
C20_Witness ==
  /\ AllRegenerated
  /\ Len(ui.seen) = 2
  /\ ui.seen[1] > 0
  /\ ui.seen[2] = 0
  /\ PanelNotifications # <<>>
  /\ admin_notifications # <<>>

\* The ids of the leads of a list.
IdsOf(list) == {list[k].id : k \in 1..Len(list)}

\* C21: in the notifications SalesmanNotifications shows, every lead of the
\* 2+ weeks list is in the 4+ days list, also when a lead was written between
\* the two queries of the pass.
C21_StaleImpliesOverdue ==
  ui.component = "SalesmanNotifications"
    => IdsOf(ui.notifications.stale_leads)
         \subseteq IdsOf(ui.notifications.overdue_calls)

\* The open leads of the user whose last_contact is a timestamp before `at`.
ValidOverdue(at) ==
  {k \in 1..Len(leads) :
     /\ leads[k].user_id = TestUser.id
     /\ leads[k].last_contact # NoTime
     /\ leads[k].last_contact < at
     /\ ~Closed(leads[k])}

C27_SidebarPolls ==
  [][/\ checkNotifications =>
          /\ ui'.adminNotificationCount = ui.adminNotificationCount
          /\ ui'.notificationCount =
               IF faults' = faults
               THEN Cardinality(ValidOverdue(now - 4 * Day))
               ELSE ui.notificationCount
     /\ SidebarCheckAdminNotifications =>
          /\ ui'.notificationCount = ui.notificationCount
          /\ ui'.adminNotificationCount =
               IF faults' = faults
               THEN Cardinality({k \in 1..Len(admin_notifications) :
                                   ~admin_notifications[k].is_read})
               ELSE 0]_vars

\* After a poll counted the user's overdue leads, a failed poll of the admin
\* notifications has reset the admin badge from 2 to 0.
C27_Witness ==
  /\ ui.component = "Sidebar"
  /\ ui.notificationCount > 0
  /\ ui.lastPoll = [kind |-> "admin", failed |-> TRUE, previous |-> 2]
  /\ ui.adminNotificationCount = 0

\* The inactive_salesman rows of a salesman.
AlertsFor(email) ==
  {k \in 1..Len(admin_notifications) :
     /\ admin_notifications[k].type = "inactive_salesman"
     /\ admin_notifications[k].salesman_email = email}

\* C23: while a salesman has been afk without interruption (the last activity
\* is between 10 and 30 minutes old since MonitoringRoom was opened), the AFK
\* checks have inserted at most one inactive_salesman row for that salesman.
C23_OneAlertPerAfkSpell ==
  (/\ ui.component = "MonitoringRoom"
   /\ ActivitiesAt("jukka@envaire.com") # {}
   /\ SinceLastActivity("jukka@envaire.com") >= AFK_THRESHOLD
   /\ SinceLastActivity("jukka@envaire.com") < IDLE_THRESHOLD)
  => Cardinality(AlertsFor("jukka@envaire.com")) <= 1

\* The lists SalesmanNotifications shows after the step.
ShownAfter ==
  IdsOf(ui'.notifications.overdue_calls)
    \cup IdsOf(ui'.notifications.stale_leads)

\* The step ends the pass that followed an update of call_status to
\* 'answered' made by call p.
AnsweredPassEnds(p) ==
  /\ ui.calls[p].pc = "critical"
  /\ ui.calls[p].field = "call_status"
  /\ ui.calls[p].value = "answered"
  /\ ui'.calls = SnReturned(p)

C25_AllOrNothing ==
  [][ui.component = "useSupabaseData" =>
       /\ \A k \in 1..5 : ui'.queried[k] <= 1
       /\ (ui.fetching > 0 /\ faults' # faults)
            => /\ ui'.state = ui.state
               /\ ui'.fetching = 0
               /\ ~ui'.loading
               /\ \A k \in 1..5 : k > ui.fetching => ui'.queried[k] = 0
       /\ ui'.state # ui.state => (ui.fetching = 5 /\ faults' = faults)
       /\ (ui.fetching = 5 /\ faults' = faults)
            => /\ ~ui'.loading
               /\ ui'.fetching = 0
               /\ IdsOf(ui'.state[1]) =
                    {leads[i].id : i \in {i \in 1..Len(leads) :
                                           leads[i].user_id = TestUser.id}}
               /\ \A k \in 2..5 : ui'.state[k] = <<[id |-> k]>>]_vars

\* A first call has set the five lists; a second call failed at the fetch of
\* demos, queried nothing after it and left the lists and loading false.
C25_Witness ==
  /\ ui.component = "useSupabaseData"
  /\ \A k \in 1..5 : ui.state[k] # <<>>
  /\ faults = 1
  /\ ui.fetching = 0
  /\ ~ui.loading
  /\ ui.queried = <<1, 1, 1, 0, 0>>

\* What a write of a form that returned does: without error the callbacks
\* onSuccess and onClose are called in this order and the form is closed;
\* with an error none is called and the form stays open; loading ends false.
WriteReturns ==
  ui.loading =>
    /\ ~ui'.loading
    /\ faults' = faults
         => (ui'.called = <<"onSuccess", "onClose">> /\ ~ui'.open)
    /\ faults' # faults
         => (ui'.called = <<>> /\ ui'.open /\ ui'.rows = ui.rows
             /\ leads' = leads)

\* C26 as stated: every handleSubmit attempts exactly one write, the update
\* of the given record when editing and the insert otherwise, and the write
\* that returns is followed by the callbacks iff it returned no error.
C26_ExactlyOneWrite ==
  [][ui.component = "Form" =>
       /\ handleSubmit
            => (ui'.writes = 1
                /\ ui'.kind = IF ui.record # 0 THEN "update" ELSE "insert")
       /\ WriteReturns]_vars

\* C26, amended: with a user, handleSubmit attempts exactly one write, the
\* update of the given record when editing and the insert otherwise, and the
\* write that returns is followed by onSuccess and onClose iff it returned no
\* error; without a user it attempts none, calls neither and the form stays
\* open; whenever handleSubmit set loading, loading ends false.
C26_SubmitWithUser ==
  [][ui.component = "Form" =>
       /\ (handleSubmit /\ ui.user # "none")
            => (ui'.writes = 1 /\ ui'.loading
                /\ ui'.kind = IF ui.record # 0 THEN "update" ELSE "insert")
       /\ (handleSubmit /\ ui.user = "none")
            => (ui'.writes = 0 /\ ~ui'.loading /\ ui'.open
                /\ ui'.called = <<>>)
       /\ WriteReturns
       /\ (ui'.rows # ui.rows \/ leads' # leads) => ui.loading]_vars

\* A form was submitted twice by a user: the first write failed and left it
\* open, the second closed it after onSuccess and onClose.
C26_Witness ==
  /\ ui.component = "Form"
  /\ ui.user # "none"
  /\ ui.submits = 2
  /\ faults = 1
  /\ ~ui.open
  /\ ~ui.loading
  /\ ui.called = <<"onSuccess", "onClose">>

\* The rows a pass inserted: those of the table after the pass whose id the
\* table before the pass did not hold.
InsertedBy(h) ==
  SelectSeq(h.after,
            LAMBDA r : \A i \in 1..Len(h.before) : h.before[i].id # r.id)

\* C28: a pass that ends in a 500 response leaves admin_notifications with
\* exactly the rows it held before the pass started.
C28_FailedPassChangesNothing ==
  \A k \in 1..Len(hist) :
    hist[k].response.status = 500 => hist[k].after = hist[k].before

\* C29: a pass that responds 200 with {success: true, notifications_created:
\* n} has inserted exactly n rows into admin_notifications, each with
\* is_read = false.
C29_CreatedCountIsInserted ==
  \A k \in 1..Len(hist) :
    LET h == hist[k]
    IN (h.response.status = 200 /\ h.response.success)
       => /\ Len(InsertedBy(h)) = h.response.notifications_created
          /\ \A i \in 1..Len(InsertedBy(h)) : ~InsertedBy(h)[i].is_read

\* C30: once the fetchNotifications and the generateNotifications of the
\* mount of a session have both completed, in whatever order their requests
\* completed, with no other writer, the session shows the rows
\* admin_notifications holds after the regeneration and is not loading.
C30_MountRaceSettles ==
  (/\ ui.mounted["a"] /\ ui.fetched["a"].null
   /\ ui.runs["a"] = 1 /\ ui.pc["a"] = "idle")
  => /\ ui.notifications["a"] = admin_notifications
     /\ ~ui.loading["a"]

====
